---- MODULE Spec2Model ----
(***************************************************************************)
(* Verification model of amalgam: the algebraic type model and its         *)
(* compatibility relation (amalgam-core/src/types.rs), the walkers' type   *)
(* registry, dependency graph and import generation (amalgam-parser), and  *)
(* the Nickel emitter with its reference resolver (amalgam-codegen).       *)
(*                                                                         *)
(* Rust strings are TLA+ strings; the string helpers below work on their   *)
(* characters (Len, SubSeq and \o apply to strings).                       *)
(***************************************************************************)
EXTENDS Integers, Sequences, FiniteSets, TLC

\* ------------------------------------------------------------------------
\* Bounds of the model
\* ------------------------------------------------------------------------

\* Call depth granted to is_compatible before the run counts as a stack
\* overflow; every terminating call of the model stays far below it.
MaxDepth == 12

\* Number of TypeRegistry::add_type calls before the graph is built.
MaxTypes == 2

\* ------------------------------------------------------------------------
\* Option<T>
\* ------------------------------------------------------------------------
None == [some |-> FALSE]
Some(v) == [some |-> TRUE, value |-> v]

\* ------------------------------------------------------------------------
\* std::str helpers, character by character
\* ------------------------------------------------------------------------
CharAt(s, i) == SubSeq(s, i, i)

starts_with(s, p) == Len(p) <= Len(s) /\ SubSeq(s, 1, Len(p)) = p

ends_with(s, p) == Len(p) <= Len(s) /\ SubSeq(s, Len(s) - Len(p) + 1, Len(s)) = p

contains(s, p) ==
    \E i \in 1..(Len(s) - Len(p) + 1) : SubSeq(s, i, i + Len(p) - 1) = p

\* index of the last occurrence of the character c in s, 0 when absent
rfind(s, c) ==
    LET hits == {i \in 1..Len(s) : CharAt(s, i) = c}
    IN  IF hits = {} THEN 0 ELSE CHOOSE i \in hits : \A j \in hits : j <= i

\* index of the first occurrence of the character c in s, 0 when absent
find(s, c) ==
    LET hits == {i \in 1..Len(s) : CharAt(s, i) = c}
    IN  IF hits = {} THEN 0 ELSE CHOOSE i \in hits : \A j \in hits : i <= j

\* str::split(c): the pieces between the occurrences of c, in order
RECURSIVE split(_, _)
split(s, c) ==
    LET i == find(s, c)
    IN  IF i = 0 THEN <<s>>
        ELSE <<SubSeq(s, 1, i - 1)>> \o split(SubSeq(s, i + 1, Len(s)), c)

\* [..].join(sep)
RECURSIVE join(_, _)
join(parts, sep) ==
    IF Len(parts) = 0 THEN ""
    ELSE IF Len(parts) = 1 THEN parts[1]
    ELSE parts[1] \o sep \o join(Tail(parts), sep)

\* s.rsplit(c).next(): the piece after the last c (the whole s without c)
rsplit_next(s, c) == SubSeq(s, rfind(s, c) + 1, Len(s))

\* str::trim_end_matches(p): strip p from the end as often as it occurs
RECURSIVE trim_end_matches(_, _)
trim_end_matches(s, p) ==
    IF Len(p) > 0 /\ ends_with(s, p)
    THEN trim_end_matches(SubSeq(s, 1, Len(s) - Len(p)), p)
    ELSE s

UpperChars == "ABCDEFGHIJKLMNOPQRSTUVWXYZ"
LowerChars == "abcdefghijklmnopqrstuvwxyz"

\* str::to_lowercase on the ASCII letters
RECURSIVE to_lowercase(_)
to_lowercase(s) ==
    IF Len(s) = 0 THEN ""
    ELSE LET c == CharAt(s, 1)
             k == find(UpperChars, c)
         IN  (IF k = 0 THEN c ELSE CharAt(LowerChars, k)) \o to_lowercase(Tail(s))

\* " ".repeat(n)
RECURSIVE repeat(_, _)
repeat(s, n) == IF n <= 0 THEN "" ELSE s \o repeat(s, n - 1)

\* ------------------------------------------------------------------------
\* amalgam-core/src/types.rs: the Type sum type
\* ------------------------------------------------------------------------
TypeString == [kind |-> "String"]
TypeNumber == [kind |-> "Number"]
TypeInteger == [kind |-> "Integer"]
TypeBool == [kind |-> "Bool"]
TypeNull == [kind |-> "Null"]
TypeAny == [kind |-> "Any"]
TypeArray(elem) == [kind |-> "Array", elem |-> elem]
TypeMap(key, value) == [kind |-> "Map", key |-> key, value |-> value]
TypeOptional(elem) == [kind |-> "Optional", elem |-> elem]
\* fields: a sequence of <<name, Field>> in name order (BTreeMap)
TypeRecord(fields, open) == [kind |-> "Record", fields |-> fields, open |-> open]
TypeUnion(types, coercion_hint) ==
    [kind |-> "Union", types |-> types, coercion_hint |-> coercion_hint]
\* variants: a sequence of <<tag, Type>> in tag order (BTreeMap)
TypeTaggedUnion(tag_field, variants) ==
    [kind |-> "TaggedUnion", tag_field |-> tag_field, variants |-> variants]
TypeReference(name, module) == [kind |-> "Reference", name |-> name, module |-> module]
TypeContract(base, predicate) ==
    [kind |-> "Contract", base |-> base, predicate |-> predicate]

Field(ty, required, description, default) ==
    [ty |-> ty, required |-> required, description |-> description, default |-> default]

\* UnionCoercion
PreferString == [hint |-> "PreferString"]
PreferNumber == [hint |-> "PreferNumber"]
NoPreference == [hint |-> "NoPreference"]
Custom(handler) == [hint |-> "Custom", handler |-> handler]

\* derived PartialEq on Type
TypeEq(a, b) == a.kind = b.kind /\ a = b

\* ------------------------------------------------------------------------
\* amalgam-core/src/types.rs: TypeSystem
\* ------------------------------------------------------------------------
\* TypeSystem::resolve
resolve(types, name) ==
    IF name \in DOMAIN types THEN Some(types[name]) ELSE None

\* the arm (Type::Integer, Type::Number) => true: widening, one way only
widens_both_ways(source, target) ==
    {source.kind, target.kind} = {"Integer", "Number"}
widens(source, target) ==
    source.kind = "Integer" /\ target.kind = "Number"

\* the else branch of both Reference arms: a name missing from the table
unresolved_fail_open == "true"
unresolved_reference == "false"

\* TypeSystem::is_compatible. The result is "true" or "false"; a call whose
\* recursion does not end within MaxDepth frames is a stack overflow.
\* iter().all and iter().any stop at the first deciding variant.
RECURSIVE is_compatible(_, _, _, _)
RECURSIVE all_compatible(_, _, _, _, _)
RECURSIVE any_compatible(_, _, _, _, _)
all_compatible(types, variants, i, target, depth) ==
    IF i > Len(variants) THEN "true"
    ELSE LET r == is_compatible(types, variants[i], target, depth)
         IN  IF r = "true" THEN all_compatible(types, variants, i + 1, target, depth)
             ELSE r

any_compatible(types, source, variants, i, depth) ==
    IF i > Len(variants) THEN "false"
    ELSE LET r == is_compatible(types, source, variants[i], depth)
         IN  IF r = "false" THEN any_compatible(types, source, variants, i + 1, depth)
             ELSE r

is_compatible(types, source, target, depth) ==
    IF depth = 0 THEN "overflow"
    ELSE IF source.kind = "Any" \/ target.kind = "Any" THEN "true"
    ELSE IF source.kind = "Null" /\ target.kind = "Optional" THEN "true"
    ELSE IF target.kind = "Optional"
         THEN is_compatible(types, source, target.elem, depth - 1)
    ELSE IF widens(source, target) THEN "true"
    ELSE IF source.kind = "Reference"
         THEN LET resolved == resolve(types, source.name)
              IN  IF resolved.some
                  THEN is_compatible(types, resolved.value, target, depth - 1)
                  ELSE unresolved_reference
    ELSE IF target.kind = "Reference"
         THEN LET resolved == resolve(types, target.name)
              IN  IF resolved.some
                  THEN is_compatible(types, source, resolved.value, depth - 1)
                  ELSE unresolved_reference
    ELSE IF source.kind = "Array" /\ target.kind = "Array"
         THEN is_compatible(types, source.elem, target.elem, depth - 1)
    ELSE IF source.kind = "Union"
         THEN all_compatible(types, source.types, 1, target, depth - 1)
    ELSE IF target.kind = "Union"
         THEN any_compatible(types, source, target.types, 1, depth - 1)
    ELSE IF TypeEq(source, target) THEN "true" ELSE "false"

\* The types the model registers and compares.
Primitives == {TypeString, TypeNumber, TypeInteger, TypeBool, TypeNull, TypeAny}
TsNames == {"MyString", "Other"}
References == {TypeReference(n, None) : n \in TsNames}
Atoms == Primitives \cup References
UnionMembers ==
    {TypeString, TypeNumber, TypeNull, TypeAny, TypeReference("MyString", None)}
Unions ==
    {TypeUnion(<<>>, None)}
    \cup {TypeUnion(<<a>>, None) : a \in {TypeAny, TypeString}}
    \cup {TypeUnion(<<a, b>>, None) : a \in UnionMembers, b \in UnionMembers}
Wrapped ==
    {TypeOptional(a) : a \in Atoms} \cup {TypeArray(a) : a \in {TypeString, TypeInteger, TypeNumber}}
    \cup {TypeOptional(TypeOptional(TypeAny)), TypeOptional(TypeUnion(<<TypeString, TypeNumber>>, None)),
          TypeMap(TypeString, TypeString), TypeRecord(<<>>, TRUE)}
TypeUniverse == Atoms \cup Unions \cup Wrapped
Registrable ==
    {TypeString, TypeNumber, TypeAny, TypeUnion(<<TypeString, TypeNumber>>, None)}
    \cup References


\* ------------------------------------------------------------------------
\* amalgam-parser/src/walkers/mod.rs: TypeRegistry and DependencyGraph
\* ------------------------------------------------------------------------
\* a HashMap is a function on the set of its keys
EmptyMap == <<>>
Insert(map, k, v) == [x \in DOMAIN map \cup {k} |-> IF x = k THEN v ELSE map[x]]
Get(map, k, default) == IF k \in DOMAIN map THEN map[k] ELSE default

TypeDefinition(name, ty, documentation) ==
    [name |-> name, ty |-> ty, documentation |-> documentation]

\* TypeRegistry::new
NewRegistry == [types |-> EmptyMap, modules |-> EmptyMap]

\* TypeRegistry::add_type
add_type(registry, fqn, type_def) ==
    LET last_dot == rfind(fqn, ".")
        module == SubSeq(fqn, 1, last_dot - 1)
        type_name == SubSeq(fqn, last_dot + 1, Len(fqn))
    IN  [types |-> Insert(registry.types, fqn, type_def),
         modules |-> IF last_dot = 0 THEN registry.modules
                     ELSE Insert(registry.modules, module,
                                 Append(Get(registry.modules, module, <<>>), type_name))]

\* DependencyGraph::new
NewGraph == [dependencies |-> EmptyMap, dependents |-> EmptyMap]

\* DependencyGraph::add_dependency
add_dependency_forward(graph, from, to) ==
    [dependencies |-> Insert(graph.dependencies, from,
                             Get(graph.dependencies, from, {}) \cup {to}),
     dependents |-> graph.dependents]
add_dependency(graph, from, to) ==
    [dependencies |-> Insert(graph.dependencies, from,
                             Get(graph.dependencies, from, {}) \cup {to}),
     dependents |-> Insert(graph.dependents, to,
                           Get(graph.dependents, to, {}) \cup {from})]

\* DependencyGraph::extract_module
extract_module(fqn) ==
    LET i == rfind(fqn, ".") IN IF i = 0 THEN fqn ELSE SubSeq(fqn, 1, i - 1)

\* DependencyGraph::get_cross_module_deps: the dependencies of another
\* module (not every dependency). The Vec it returns is in the HashSet's
\* order; every caller puts its elements into a map of sets.
get_all_deps(graph, fqn) == Get(graph.dependencies, fqn, {})
get_cross_module_deps(graph, fqn) ==
    {dep \in Get(graph.dependencies, fqn, {}) :
        extract_module(dep) # extract_module(fqn)}

\* ------------------------------------------------------------------------
\* The walkers: reference collection and build_dependencies
\* ------------------------------------------------------------------------
Range(seq) == {seq[i] : i \in 1..Len(seq)}

\* PackageWalkerAdapter::collect_references (CRDWalker::extract_references
\* and OpenAPIWalker::extract_references walk the Type the same way): the
\* ReferenceInfo {name, module} of every Reference in the tree of ty
RECURSIVE collect_references(_)
collect_references(ty) ==
    CASE ty.kind = "Reference" -> {[name |-> ty.name, module |-> ty.module]}
      [] ty.kind \in {"Array", "Optional"} -> collect_references(ty.elem)
      [] ty.kind = "Map" -> collect_references(ty.value)
      [] ty.kind = "Record" ->
            UNION {collect_references(f[2].ty) : f \in Range(ty.fields)}
      [] ty.kind = "Union" -> UNION {collect_references(t) : t \in Range(ty.types)}
      [] ty.kind = "TaggedUnion" ->
            UNION {collect_references(v[2]) : v \in Range(ty.variants)}
      [] ty.kind = "Contract" -> collect_references(ty.base)
      [] OTHER -> {}

\* CRDWalker::extract_references / OpenAPIWalker::extract_references: the
\* set of "{module}.{name}" (the bare name without module)
extract_references(ty) ==
    {IF r.module.some THEN r.module.value \o "." \o r.name ELSE r.name :
        r \in collect_references(ty)}

\* the dep_fqn PackageWalkerAdapter::build_dependencies forms for one reference
package_dep_fqn(fqn, ref_info) ==
    IF ref_info.module.some
    THEN ref_info.module.value \o "." \o to_lowercase(ref_info.name)
    ELSE LET i == rfind(fqn, ".")
             self_module == IF i = 0 THEN "" ELSE SubSeq(fqn, 1, i - 1)
         IN  self_module \o "." \o to_lowercase(ref_info.name)

\* the fqn a walker forms for one reference of the type registered as fqn
referenced_fqn(w, fqn, r) ==
    IF w = "package" THEN package_dep_fqn(fqn, r)
    ELSE IF r.module.some THEN r.module.value \o "." \o r.name ELSE r.name

\* the edges one type contributes in <walker>::build_dependencies
crd_edges(registry, fqn) ==
    {r \in extract_references(registry.types[fqn].ty) :
        starts_with(r, "io.k8s.") \/ r \in DOMAIN registry.types}

openapi_edges(registry, fqn) ==
    {r \in extract_references(registry.types[fqn].ty) : r \in DOMAIN registry.types}

package_edges(registry, fqn) ==
    {d \in {package_dep_fqn(fqn, r) : r \in collect_references(registry.types[fqn].ty)} :
        d \in DOMAIN registry.types \/ starts_with(d, "io.k8s.")}

direct_edges(w, registry, fqn) ==
    CASE w = "crd" -> crd_edges(registry, fqn)
      [] w = "openapi" -> openapi_edges(registry, fqn)
      [] w = "package" -> package_edges(registry, fqn)

\* the targets of the add_dependency calls made for one type: its own
\* edges (not those of the types it depends on as well)
edges_through(w, registry, fqn) ==
    direct_edges(w, registry, fqn)
    \cup UNION {direct_edges(w, registry, d) :
                   d \in direct_edges(w, registry, fqn) \cap DOMAIN registry.types}
walker_edges(w, registry, fqn) == direct_edges(w, registry, fqn)

\* add_dependency for every element of a set of targets
RECURSIVE add_all(_, _, _)
add_all(graph, from, tos) ==
    IF tos = {} THEN graph
    ELSE LET to == CHOOSE t \in tos : TRUE
         IN  add_all(add_dependency(graph, from, to), from, tos \ {to})

\* <walker>::build_dependencies: the loop over registry.types; the graph
\* holds sets, so the HashMap's order does not show in the result
RECURSIVE build_from(_, _, _, _)
build_from(w, registry, fqns, graph) ==
    IF fqns = {} THEN graph
    ELSE LET fqn == CHOOSE f \in fqns : TRUE
         IN  build_from(w, registry, fqns \ {fqn},
                        add_all(graph, fqn, walker_edges(w, registry, fqn)))

build_dependencies(w, registry) ==
    build_from(w, registry, DOMAIN registry.types, NewGraph)

\* ------------------------------------------------------------------------
\* The walkers: import paths and aliases
\* ------------------------------------------------------------------------
Import(path, alias, items) == [path |-> path, alias |-> alias, items |-> items]
Module(name, imports, types) ==
    [name |-> name, imports |-> imports, types |-> types, constants |-> <<>>]

\* Iterator::take_while(|(a, b)| a == b).count() over zip(from, to)
RECURSIVE common_prefix_len(_, _)
common_prefix_len(a, b) ==
    IF Len(a) = 0 \/ Len(b) = 0 \/ a[1] # b[1] THEN 0
    ELSE 1 + common_prefix_len(Tail(a), Tail(b))

\* CRDWalker::map_k8s_import_path
map_k8s_import_path(fqn) ==
    IF starts_with(fqn, "io.k8s.apimachinery.pkg.apis.meta.") THEN "../../../k8s_io/v1"
    ELSE IF starts_with(fqn, "io.k8s.api.core.")
         THEN LET parts == split(fqn, ".")
              IN  IF Len(parts) >= 5 THEN "../../../k8s_io/" \o parts[5]
                  ELSE "../../../k8s_io/v1"
    ELSE "../../../k8s_io/v1"

\* the relative path of calculate_import_path for a number of `..` levels
relative_mod_path(ups, to_parts, common_len) ==
    join([i \in 1..ups |-> ".."] \o SubSeq(to_parts, common_len + 1, Len(to_parts)), "/")
        \o "/mod.ncl"

\* CRDWalker::calculate_import_path
crd_calculate_import_path(from_module, to_module) ==
    LET from_parts == split(from_module, ".")
        to_parts == split(to_module, ".")
        common_len == common_prefix_len(from_parts, to_parts)
        ups == Len(from_parts) - common_len
    IN  Some(relative_mod_path(ups, to_parts, common_len))

\* OpenAPIWalker::calculate_import_path; `from_parts.len() - common_len - 1`
\* is a usize subtraction, and when from_module is a prefix of to_module it
\* goes below zero: the call panics and yields no path (None here)
openapi_calculate_import_path(from_module, to_module) ==
    LET from_parts == split(from_module, ".")
        to_parts == split(to_module, ".")
        common_len == common_prefix_len(from_parts, to_parts)
        ups == Len(from_parts) - common_len - 1
    IN  IF ups < 0 THEN None
        ELSE Some(relative_mod_path(ups, to_parts, common_len))

\* the last element of segs that is neither empty nor ".."
RECURSIVE rfind_segment(_)
rfind_segment(segs) ==
    IF Len(segs) = 0 THEN "import"
    ELSE LET last == segs[Len(segs)]
         IN  IF last # "" /\ last # ".." THEN last
             ELSE rfind_segment(SubSeq(segs, 1, Len(segs) - 1))

\* CRDWalker::generate_alias
crd_generate_alias(module) ==
    IF starts_with(module, "../") THEN rfind_segment(split(module, "/"))
    ELSE rsplit_next(module, ".")

\* OpenAPIWalker::generate_alias
openapi_generate_alias(module) == rsplit_next(module, ".")

\* PackageWalkerAdapter::generate_alias
package_generate_alias(import_path) ==
    rsplit_next(trim_end_matches(import_path, ".ncl"), "/")

\* PackageWalkerAdapter::calculate_import: <<import_path, type_name>>
calculate_import(to_fqn, version) ==
    LET type_name == rsplit_next(to_fqn, ".")
    IN  IF starts_with(to_fqn, "io.k8s.")
        THEN LET import_path ==
                    IF contains(to_fqn, ".v1.") \/ contains(to_fqn, ".meta.v1.")
                    THEN "../../../k8s_io/v1"
                    ELSE IF contains(to_fqn, ".v1alpha1.") THEN "../../../k8s_io/v1alpha1"
                    ELSE IF contains(to_fqn, ".v1alpha3.") THEN "../../../k8s_io/v1alpha3"
                    ELSE IF contains(to_fqn, ".v1beta1.") THEN "../../../k8s_io/v1beta1"
                    ELSE IF contains(to_fqn, ".v2.") THEN "../../../k8s_io/v2"
                    ELSE "../../../k8s_io/v1"
             IN  <<import_path \o "/" \o type_name \o ".ncl", type_name>>
        ELSE LET to_parts == split(to_fqn, ".")
             IN  IF Len(to_parts) >= 2
                 THEN LET to_version == to_parts[Len(to_parts) - 1]
                      IN  IF to_version # version
                          THEN <<"../" \o to_version \o "/" \o type_name \o ".ncl", type_name>>
                          ELSE <<"./" \o type_name \o ".ncl", type_name>>
                 ELSE <<"./" \o type_name \o ".ncl", type_name>>

\* ------------------------------------------------------------------------
\* The walkers: the imports_map of one module, as a set of <<key, item>>
\* ------------------------------------------------------------------------
\* the fqns of the module's listed types that the registry holds
module_fqns(registry, module_name) ==
    {module_name \o "." \o n : n \in Range(registry.modules[module_name])}
        \cap DOMAIN registry.types

\* CRDWalker::generate_ir, the loop filling imports_map
crd_import_pairs(registry, deps, module_name) ==
    UNION {
        {IF starts_with(dep, "io.k8s.")
            THEN <<map_k8s_import_path(dep), rsplit_next(dep, ".")>>
            ELSE <<extract_module(dep), rsplit_next(dep, ".")>> :
         dep \in {d \in get_cross_module_deps(deps, fqn) :
                    starts_with(d, "io.k8s.") \/ rfind(d, ".") # 0}} :
        fqn \in module_fqns(registry, module_name)}

\* OpenAPIWalker::generate_ir, the loop filling imports_map
openapi_import_pairs(registry, deps, module_name) ==
    UNION {
        {<<extract_module(dep), rsplit_next(dep, ".")>> :
         dep \in {d \in get_cross_module_deps(deps, fqn) : rfind(d, ".") # 0}} :
        fqn \in module_fqns(registry, module_name)}

\* PackageWalkerAdapter::generate_ir, the loop filling imports_map
package_import_pairs(deps, fqn, version) ==
    {calculate_import(dep, version) : dep \in get_cross_module_deps(deps, fqn)}

\* ------------------------------------------------------------------------
\* The walkers: generate_ir. HashMap and HashSet iterate in an order the
\* hasher's per-instance random keys decide, so a loop over one can visit
\* its entries in any order: generate_ir is modelled by the set of the IRs
\* it can return.
\* ------------------------------------------------------------------------
\* the orders in which a loop can visit the set S
Orders(S) ==
    {p \in [1..Cardinality(S) -> S] : \A i, j \in 1..Cardinality(S) : p[i] = p[j] => i = j}

\* iteration over a HashMap / HashSet
hash_order(S) == Orders(S)

\* the ways a loop can visit the imports_map entries and, per entry, its
\* items: sequences of [entry, items]
RECURSIVE visit_lists(_, _)
visit_lists(entry_seq, i) ==
    IF i > Len(entry_seq) THEN {<<>>}
    ELSE {<<[entry |-> entry_seq[i], items |-> items]>> \o rest :
             items \in hash_order(entry_seq[i].items),
             rest \in visit_lists(entry_seq, i + 1)}

\* the ways the loop `for (key, items) in imports_map` can run
imports_visits(entries) ==
    UNION {visit_lists(order, 1) : order \in hash_order(entries)}

\* imports_map: HashMap<String, HashSet<String>> filled by
\* entry(key).or_default().insert(item): one entry per distinct key, holding
\* the set of the items inserted under it (not one entry per inserted pair)
import_per_item(pairs) ==
    {[key |-> p[1], items |-> {p[2]}] : p \in pairs}
imports_map(pairs) ==
    {[key |-> k, items |-> {p[2] : p \in {q \in pairs : q[1] = k}}] :
        k \in {p[1] : p \in pairs}}

\* module.types: the registry's definitions for the listed names, in the
\* order of the list
RECURSIVE module_types(_, _, _)
module_types(registry, module_name, type_names) ==
    IF Len(type_names) = 0 THEN <<>>
    ELSE LET fqn == module_name \o "." \o type_names[1]
             rest == module_types(registry, module_name, Tail(type_names))
         IN  IF fqn \in DOMAIN registry.types
             THEN <<registry.types[fqn]>> \o rest ELSE rest

crd_import(module_name, entry, items) ==
    Import(IF starts_with(entry.key, "../") THEN entry.key
           ELSE crd_calculate_import_path(module_name, entry.key).value,
           Some(crd_generate_alias(entry.key)), items)

openapi_import(module_name, entry, items) ==
    Import(openapi_calculate_import_path(module_name, entry.key).value,
           Some(openapi_generate_alias(entry.key)), items)

package_import(entry, items) ==
    Import(entry.key, Some(package_generate_alias(entry.key)), items)

\* the modules generate_ir can build for one key of its outer loop
crd_modules(registry, deps, module_name) ==
    {Module(module_name, imports,
            module_types(registry, module_name, registry.modules[module_name])) :
        imports \in {[i \in 1..Len(v) |-> crd_import(module_name, v[i].entry, v[i].items)] :
                        v \in imports_visits(imports_map(crd_import_pairs(registry, deps, module_name)))}}

openapi_panics(registry, deps, module_name) ==
    \E p \in openapi_import_pairs(registry, deps, module_name) :
        ~openapi_calculate_import_path(module_name, p[1]).some

openapi_modules(registry, deps, module_name) ==
    {Module(module_name, imports,
            module_types(registry, module_name, registry.modules[module_name])) :
        imports \in {[i \in 1..Len(v) |-> openapi_import(module_name, v[i].entry, v[i].items)] :
                        v \in imports_visits(imports_map(openapi_import_pairs(registry, deps, module_name)))}}

package_modules(registry, deps, fqn, version) ==
    {Module(fqn, imports, <<registry.types[fqn]>>) :
        imports \in {[i \in 1..Len(v) |-> package_import(v[i].entry, v[i].items)] :
                        v \in imports_visits(imports_map(package_import_pairs(deps, fqn, version)))}}

\* the keys of generate_ir's outer loop and the modules for each
walker_keys(w, registry) ==
    IF w = "package" THEN DOMAIN registry.types ELSE DOMAIN registry.modules

walker_modules(w, registry, deps, key, version) ==
    CASE w = "crd" -> crd_modules(registry, deps, key)
      [] w = "openapi" -> openapi_modules(registry, deps, key)
      [] w = "package" -> package_modules(registry, deps, key, version)

\* IR::add_module for each key in the order visited
RECURSIVE module_lists(_, _, _, _, _, _)
module_lists(w, registry, deps, key_seq, i, version) ==
    IF i > Len(key_seq) THEN {<<>>}
    ELSE {<<m>> \o rest :
             m \in walker_modules(w, registry, deps, key_seq[i], version),
             rest \in module_lists(w, registry, deps, key_seq, i + 1, version)}

\* <walker>::generate_ir: the results it can return. Ok(ir) carries the
\* module list; a panic in calculate_import_path leaves no IR.
generate_ir(w, registry, deps, version) ==
    IF w = "openapi" /\ \E m \in DOMAIN registry.modules : openapi_panics(registry, deps, m)
    THEN {[status |-> "panic", modules |-> <<>>]}
    ELSE {[status |-> "ok", modules |-> ms] :
             ms \in UNION {module_lists(w, registry, deps, order, 1, version) :
                              order \in hash_order(walker_keys(w, registry))}}

\* ------------------------------------------------------------------------
\* amalgam-codegen/src/resolver.rs: TypeResolver
\* ------------------------------------------------------------------------
\* TypeResolver::register_common_types: short name -> full name
type_registry ==
    [n \in {"ObjectMeta", "LabelSelector", "Time"} |->
        "io.k8s.apimachinery.pkg.apis.meta.v1." \o n]

\* Vec::filter keeping the elements that satisfy keep
RECURSIVE clean_parts_of(_)
clean_parts_of(parts) ==
    IF Len(parts) = 0 THEN <<>>
    ELSE (IF parts[1] # "" /\ parts[1] # ".." /\ parts[1] # "." THEN <<parts[1]>> ELSE <<>>)
         \o clean_parts_of(Tail(parts))

\* TypeResolver::parse_import_path: Option<ImportInfo>, from clean_parts on
import_info_of(clean_parts) ==
    IF Len(clean_parts) = 0 THEN None
    ELSE Some([module_name |->
                   IF clean_parts[Len(clean_parts)] = "mod" /\ Len(clean_parts) > 1
                   THEN clean_parts[Len(clean_parts) - 1]
                   ELSE clean_parts[Len(clean_parts)],
               namespace |->
                   IF Len(clean_parts) > 1
                   THEN join(SubSeq(clean_parts, 1, Len(clean_parts) - 1), ".")
                   ELSE ""])
parse_import_path(path) ==
    import_info_of(clean_parts_of(split(trim_end_matches(path, ".ncl"), "/")))

\* TypeResolver::import_matches_reference
import_matches_reference(import_info, reference) ==
    IF import_info.namespace = "" THEN FALSE
    ELSE \E part \in Range(split(import_info.namespace, ".")) : contains(reference, part)

\* TypeResolver::try_resolve_with_import: Option<String>
resolve_with_info(reference, import, import_info) ==
    IF ~import_info.some THEN None
    ELSE IF import_matches_reference(import_info.value, reference)
         THEN Some((IF import.alias.some THEN import.alias.value
                    ELSE import_info.value.module_name)
                   \o "." \o rsplit_next(rsplit_next(reference, "/"), "."))
    ELSE None
try_resolve_with_import(reference, import) ==
    resolve_with_info(reference, import, parse_import_path(import.path))

\* the first import of the list that resolves the reference, if any
RECURSIVE first_import_match(_, _)
first_match(r, full_reference, imports) ==
    IF r.some THEN r ELSE first_import_match(full_reference, Tail(imports))
first_import_match(full_reference, imports) ==
    IF Len(imports) = 0 THEN None
    ELSE first_match(try_resolve_with_import(full_reference, imports[1]),
                     full_reference, imports)

\* TypeResolver::resolve without the cache lookup: [name, cache]
resolution(cache, reference, module, by_import) ==
    IF by_import.some
    THEN [name |-> by_import.value, cache |-> Insert(cache, reference, by_import.value)]
    ELSE IF \E i \in 1..Len(module.types) : module.types[i].name = reference
         THEN [name |-> reference, cache |-> Insert(cache, reference, reference)]
    ELSE [name |-> reference, cache |-> cache]
resolve_uncached(cache, reference, module) ==
    resolution(cache, reference, module,
               first_import_match(Get(type_registry, reference, reference), module.imports))

\* TypeResolver::resolve: the resolved name and the cache afterwards
resolver_resolve(cache, reference, module) ==
    IF reference \in DOMAIN cache
    THEN [name |-> cache[reference], cache |-> cache]
    ELSE resolve_uncached(cache, reference, module)

\* ------------------------------------------------------------------------
\* amalgam-codegen/src/nickel.rs: lexical helpers
\* ------------------------------------------------------------------------
ReservedKeywords ==
    {"and", "or", "not", "if", "then", "else", "let", "in", "fun", "import",
     "match", "rec", "null", "true", "false", "switch", "default", "forall",
     "doc", "optional", "priority", "force", "merge"}

\* NickelCodegen::is_reserved_keyword
is_reserved_keyword(name) == name \in ReservedKeywords

\* NickelCodegen::escape_field_name
escape_field_name(name) ==
    IF starts_with(name, "$") \/ is_reserved_keyword(name)
    THEN "\"" \o name \o "\"" ELSE name

\* NickelCodegen::indent, indent_size = 2
indent(level) == repeat(" ", level * 2)

\* str::replace of the character c by the string w
RECURSIVE replace(_, _, _)
replace(s, c, w) ==
    IF Len(s) = 0 THEN ""
    ELSE (IF CharAt(s, 1) = c THEN w ELSE CharAt(s, 1)) \o replace(Tail(s), c, w)

Whitespace == {" ", "\n", "\t", "\r"}

\* str::trim
RECURSIVE trim(_)
trim(s) ==
    IF Len(s) = 0 THEN s
    ELSE IF CharAt(s, 1) \in Whitespace THEN trim(Tail(s))
    ELSE IF CharAt(s, Len(s)) \in Whitespace THEN trim(SubSeq(s, 1, Len(s) - 1))
    ELSE s

\* NickelCodegen::format_doc
format_doc(doc) ==
    IF contains(doc, "\n") \/ Len(doc) > 80
    THEN "m%\"\n" \o trim(doc) \o "\n\"%"
    ELSE "\"" \o replace(doc, "\"", "\\\"") \o "\""

\* u64::to_string / i64::to_string
RECURSIVE nat_to_string(_)
nat_to_string(n) ==
    IF n < 10 THEN CharAt("0123456789", n + 1)
    ELSE nat_to_string(n \div 10) \o CharAt("0123456789", (n % 10) + 1)
int_to_string(n) == IF n < 0 THEN "-" \o nat_to_string(-n) ELSE nat_to_string(n)

\* serde_json::Value; an Object is its entries <<key, value>> in key order
JsonNull == [json |-> "Null"]
JsonBool(b) == [json |-> "Bool", value |-> b]
JsonNumber(n) == [json |-> "Number", value |-> n]
JsonString(str) == [json |-> "String", value |-> str]
JsonArray(arr) == [json |-> "Array", value |-> arr]
JsonObject(obj) == [json |-> "Object", value |-> obj]

\* format_json_value_impl
RECURSIVE format_json_value_impl(_, _)
RECURSIVE format_json_items(_, _)
RECURSIVE format_json_entries(_, _)
format_json_items(arr, indent_level) ==
    IF Len(arr) = 0 THEN <<>>
    ELSE <<format_json_value_impl(arr[1], indent_level)>>
         \o format_json_items(Tail(arr), indent_level)

format_json_entries(obj, indent_level) ==
    IF Len(obj) = 0 THEN <<>>
    ELSE <<repeat(" ", (indent_level + 1) * 2) \o escape_field_name(obj[1][1]) \o " = "
           \o format_json_value_impl(obj[1][2], indent_level + 1)>>
         \o format_json_entries(Tail(obj), indent_level)

format_json_value_impl(value, indent_level) ==
    CASE value.json = "Null" -> "null"
      [] value.json = "Bool" -> IF value.value THEN "true" ELSE "false"
      [] value.json = "Number" -> int_to_string(value.value)
      [] value.json = "String" -> "\"" \o replace(value.value, "\"", "\\\"") \o "\""
      [] value.json = "Array" ->
            "[" \o join(format_json_items(value.value, indent_level), ", ") \o "]"
      [] value.json = "Object" ->
            IF Len(value.value) = 0 THEN "{}"
            ELSE "{\n" \o join(format_json_entries(value.value, indent_level), ",\n")
                 \o "\n" \o repeat(" ", indent_level * 2) \o "}"

\* ------------------------------------------------------------------------
\* amalgam-codegen/src/nickel.rs: type_to_nickel and field_to_nickel
\* ------------------------------------------------------------------------
\* The emitter's mutable state, threaded through every call:
\*   cache            TypeResolver.cache, reference -> resolved_name
\*   current_imports  NickelCodegen.current_imports, a set of <<version, type_name>>
\*   refs             (observation only) the strings emitted for References
\* Every operator returns [s |-> the string, st |-> the state afterwards].
NewCodegen == [cache |-> EmptyMap, current_imports |-> {}, refs |-> <<>>]

\* the Reference arm: a cross-version reference between io.k8s modules gets
\* the alias "{version}_{name}" and is recorded in current_imports
last(parts) == parts[Len(parts)]
crosses_k8s_version(name, ref_module, module) ==
    /\ ref_module.some
    /\ contains(ref_module.value, "io.k8s.")
    /\ contains(module.name, "io.k8s.")
    /\ Len(split(ref_module.value, ".")) > 2
    /\ Len(split(module.name, ".")) > 2
    /\ last(split(ref_module.value, ".")) # last(split(module.name, "."))

cross_version_reference(name, import_alias, key, st) ==
    [s |-> import_alias \o "." \o name,
     st |-> [st EXCEPT !.current_imports = @ \cup {key},
                       !.refs = Append(@, import_alias \o "." \o name)]]
resolved_reference(r, st) ==
    [s |-> r.name, st |-> [st EXCEPT !.cache = r.cache, !.refs = Append(@, r.name)]]
reference_to_nickel(ty, module, st) ==
    IF crosses_k8s_version(ty.name, ty.module, module)
    THEN cross_version_reference(
             ty.name,
             last(split(ty.module.value, ".")) \o "_" \o to_lowercase(ty.name),
             <<last(split(ty.module.value, ".")), to_lowercase(ty.name)>>, st)
    ELSE resolved_reference(resolver_resolve(st.cache, ty.name, module), st)

\* a result with text around its string / in front of the rest's string /
\* as one more element of the rest's list; the state is the last one
wrap(pre, r, post) == [s |-> pre \o r.s \o post, st |-> r.st]
prepend(str, rest) == [s |-> str \o rest.s, st |-> rest.st]
cons(str, rest) == [s |-> <<str>> \o rest.s, st |-> rest.st]
joined(r, sep) == [s |-> join(r.s, sep), st |-> r.st]

RECURSIVE type_to_nickel(_, _, _, _)
RECURSIVE fields_to_nickel(_, _, _, _, _)
RECURSIVE union_to_nickel(_, _, _, _, _)
RECURSIVE variants_to_nickel(_, _, _, _, _, _)

\* `if field.default.is_none() { parts.push("optional") }`: the marker goes
\* by the default alone (not by the required flag)
optional_unless_required(field) == IF ~field.required THEN <<"optional">> ELSE <<>>
optional_marker(field) == IF ~field.default.some THEN <<"optional">> ELSE <<>>

\* NickelCodegen::field_to_nickel: the parts joined by " | "
field_parts(name, field, indent_level, type_str) ==
    <<indent(indent_level) \o escape_field_name(name)>>
    \o optional_marker(field)
    \o <<type_str>>
    \o (IF field.description.some
        THEN <<"doc " \o format_doc(field.description.value)>> ELSE <<>>)
    \o (IF field.default.some
        THEN <<"default = " \o format_json_value_impl(field.default.value, indent_level)>>
        ELSE <<>>)
field_text(name, field, indent_level, ty) ==
    [s |-> join(field_parts(name, field, indent_level, ty.s), " | "), st |-> ty.st]
field_to_nickel(name, field, module, indent_level, st) ==
    field_text(name, field, indent_level, type_to_nickel(field.ty, module, indent_level, st))

\* the loop over sorted_fields from the i-th field on: each field and ",\n"
fields_after(fields, i, module, indent_level, f) ==
    prepend(f.s \o ",\n", fields_to_nickel(fields, i + 1, module, indent_level, f.st))
fields_to_nickel(fields, i, module, indent_level, st) ==
    IF i > Len(fields) THEN [s |-> "", st |-> st]
    ELSE fields_after(fields, i, module, indent_level,
                      field_to_nickel(fields[i][1], fields[i][2], module,
                                      indent_level + 1, st))

\* types.iter().map(type_to_nickel): [s |-> the strings, st]
union_after(types, i, module, indent_level, t) ==
    cons(t.s, union_to_nickel(types, i + 1, module, indent_level, t.st))
union_to_nickel(types, i, module, indent_level, st) ==
    IF i > Len(types) THEN [s |-> <<>>, st |-> st]
    ELSE union_after(types, i, module, indent_level,
                     type_to_nickel(types[i], module, indent_level, st))

\* the loop over the variants of a TaggedUnion: [s |-> the contracts, st]
variants_after(tag_field, variants, i, module, indent_level, v) ==
    cons("(" \o tag_field \o " == \"" \o variants[i][1] \o "\" && " \o v.s \o ")",
         variants_to_nickel(tag_field, variants, i + 1, module, indent_level, v.st))
variants_to_nickel(tag_field, variants, i, module, indent_level, st) ==
    IF i > Len(variants) THEN [s |-> <<>>, st |-> st]
    ELSE variants_after(tag_field, variants, i, module, indent_level,
                        type_to_nickel(variants[i][2], module, indent_level, st))

\* `if *open { result.push_str("{indent}.. | Dyn,\n") }`: the catch-all line
\* of an open record (a closed record gets none)
catch_all_always(open, indent_level) == indent(indent_level + 1) \o ".. | Dyn,\n"
catch_all(open, indent_level) ==
    IF open THEN indent(indent_level + 1) \o ".. | Dyn,\n" ELSE ""

\* NickelCodegen::type_to_nickel
type_to_nickel(ty, module, indent_level, st) ==
    CASE ty.kind = "String" -> [s |-> "String", st |-> st]
      [] ty.kind = "Number" -> [s |-> "Number", st |-> st]
      [] ty.kind = "Integer" -> [s |-> "Number", st |-> st]
      [] ty.kind = "Bool" -> [s |-> "Bool", st |-> st]
      [] ty.kind = "Null" -> [s |-> "Null", st |-> st]
      [] ty.kind = "Any" -> [s |-> "Dyn", st |-> st]
      [] ty.kind = "Array" ->
            wrap("Array ", type_to_nickel(ty.elem, module, indent_level, st), "")
      [] ty.kind = "Map" ->
            wrap("{ _ : ", type_to_nickel(ty.value, module, indent_level, st), " }")
      [] ty.kind = "Optional" ->
            wrap("", type_to_nickel(ty.elem, module, indent_level, st), " | Null")
      [] ty.kind = "Record" ->
            IF Len(ty.fields) = 0 /\ ty.open THEN [s |-> "{ .. }", st |-> st]
            ELSE wrap("{\n",
                      fields_to_nickel(ty.fields, 1, module, indent_level, st),
                      catch_all(ty.open, indent_level) \o indent(indent_level) \o "}")
      [] ty.kind = "Union" ->
            IF ty.coercion_hint.some /\ ty.coercion_hint.value.hint = "PreferString"
            THEN [s |-> "String", st |-> st]
            ELSE IF ty.coercion_hint.some /\ ty.coercion_hint.value.hint = "PreferNumber"
            THEN [s |-> "Number", st |-> st]
            ELSE IF ty.coercion_hint.some /\ ty.coercion_hint.value.hint = "Custom"
            THEN [s |-> ty.coercion_hint.value.handler, st |-> st]
            ELSE joined(union_to_nickel(ty.types, 1, module, indent_level, st), " | ")
      [] ty.kind = "TaggedUnion" ->
            joined(variants_to_nickel(ty.tag_field, ty.variants, 1, module,
                                      indent_level, st), " | ")
      [] ty.kind = "Reference" -> reference_to_nickel(ty, module, st)
      [] ty.kind = "Contract" ->
            wrap("", type_to_nickel(ty.base, module, indent_level, st),
                 " | Contract(" \o ty.predicate \o ")")

\* ------------------------------------------------------------------------
\* amalgam-codegen/src/nickel.rs: Codegen::generate
\* ------------------------------------------------------------------------
\* the characters of names, versions and paths in the order of their bytes
AsciiOrder == "$-./0123456789@ABCDEFGHIJKLMNOPQRSTUVWXYZ_abcdefghijklmnopqrstuvwxyz"
byte(c) == find(AsciiOrder, c)

\* Ord for String: lexicographic on bytes
RECURSIVE str_lt(_, _)
str_lt(a, b) ==
    IF Len(b) = 0 THEN FALSE
    ELSE IF Len(a) = 0 THEN TRUE
    ELSE IF CharAt(a, 1) # CharAt(b, 1) THEN byte(CharAt(a, 1)) < byte(CharAt(b, 1))
    ELSE str_lt(Tail(a), Tail(b))

\* Ord for the key (ver.clone(), name.clone())
key_lt(x, y) == str_lt(x[1], y[1]) \/ (x[1] = y[1] /\ str_lt(x[2], y[2]))

\* imports.sort_by_key(|(ver, name)| (ver.clone(), name.clone()))
RECURSIVE sort_by_key(_)
sort_by_key(S) ==
    IF S = {} THEN <<>>
    ELSE LET least == CHOOSE x \in S : \A y \in S \ {x} : key_lt(x, y)
         IN  <<least>> \o sort_by_key(S \ {least})

\* PackageMode::convert_import for PackageMode::default()
convert_import(path) == path

\* str::lines
lines(doc) ==
    LET parts == split(doc, "\n")
    IN  IF parts[Len(parts)] = "" THEN SubSeq(parts, 1, Len(parts) - 1) ELSE parts

\* first pass over module.types: only the emitter's state is kept
RECURSIVE first_pass(_, _, _, _)
first_pass(types, i, module, st) ==
    IF i > Len(types) THEN st
    ELSE first_pass(types, i + 1, module, type_to_nickel(types[i].ty, module, 1, st).st)

\* the statements for current_imports: [alias, path, text]
RECURSIVE discovered_imports(_)
discovered_import(version, type_name) ==
    [alias |-> version \o "_" \o type_name,
     path |-> "../" \o version \o "/" \o type_name,
     text |-> "let " \o version \o "_" \o type_name \o " = import \"../"
              \o version \o "/" \o type_name \o "\" in\n"]
discovered_imports(sorted) ==
    IF Len(sorted) = 0 THEN <<>>
    ELSE <<discovered_import(sorted[1][1], sorted[1][2])>>
         \o discovered_imports(Tail(sorted))

\* the statements for module.imports: [alias, path, text]
RECURSIVE original_imports(_)
original_import(name, import_path) ==
    [alias |-> name, path |-> import_path,
     text |-> IF ~contains(import_path, "/") /\ starts_with(import_path, "\"")
              THEN "let " \o name \o " = import " \o import_path \o " in\n"
              ELSE "let " \o name \o " = import \"" \o import_path \o "\" in\n"]
original_imports(imports) ==
    IF Len(imports) = 0 THEN <<>>
    ELSE <<original_import(IF imports[1].alias.some THEN imports[1].alias.value
                           ELSE replace(imports[1].path, "/", "_"),
                           convert_import(imports[1].path))>>
         \o original_imports(Tail(imports))

RECURSIVE texts(_)
texts(stmts) == IF Len(stmts) = 0 THEN "" ELSE stmts[1].text \o texts(Tail(stmts))

RECURSIVE doc_comment(_)
doc_comment(ls) ==
    IF Len(ls) = 0 THEN "" ELSE indent(1) \o "# " \o ls[1] \o "\n" \o doc_comment(Tail(ls))

\* second pass, the loop over module.types.iter().enumerate()
RECURSIVE type_definitions(_, _, _, _)
type_definition(types, i, type_str) ==
    (IF types[i].documentation.some
     THEN doc_comment(lines(types[i].documentation.value)) ELSE "")
    \o "  " \o types[i].name \o " = " \o type_str \o ",\n"
    \o (IF i < Len(types) THEN "\n" ELSE "")
definitions_after(types, i, module, ty) ==
    prepend(type_definition(types, i, ty.s), type_definitions(types, i + 1, module, ty.st))
type_definitions(types, i, module, st) ==
    IF i > Len(types) THEN [s |-> "", st |-> st]
    ELSE definitions_after(types, i, module, type_to_nickel(types[i].ty, module, 1, st))

\* the loop over module.constants
RECURSIVE constant_definitions(_)
constant_definitions(constants) ==
    IF Len(constants) = 0 THEN ""
    ELSE (IF constants[1].documentation.some
          THEN "  # " \o constants[1].documentation.value \o "\n" ELSE "")
         \o "  " \o constants[1].name \o " = "
         \o format_json_value_impl(constants[1].value, 1) \o ",\n"
         \o constant_definitions(Tail(constants))

\* the body of the loop over ir.modules: the text of one module, what it
\* emitted (import statements, and the References of its definitions) and
\* the resolver cache it leaves behind
rendered_module(module, discovered, original, body) ==
    [name |-> module.name,
     discovered |-> discovered,
     original |-> original,
     refs |-> body.st.refs,
     cache |-> body.st.cache,
     text |-> "# Module: " \o module.name \o "\n\n"
              \o (IF Len(discovered) > 0 THEN texts(discovered) \o "\n" ELSE "")
              \o (IF Len(original) > 0 THEN texts(original) \o "\n" ELSE "")
              \o "{\n" \o body.s
              \o (IF Len(module.constants) > 0
                  THEN "\n" \o constant_definitions(module.constants) ELSE "")
              \o "}\n"]
second_pass(module, first) ==
    rendered_module(module,
                    discovered_imports(sort_by_key(first.current_imports)),
                    original_imports(module.imports),
                    type_definitions(module.types, 1, module, [first EXCEPT !.refs = <<>>]))
generate_module(module, cache) ==
    second_pass(module,
                first_pass(module.types, 1, module,
                           [cache |-> cache, current_imports |-> {}, refs |-> <<>>]))

\* the loop over ir.modules
RECURSIVE generate_modules(_, _, _)
modules_after(modules, i, m) ==
    <<m>> \o generate_modules(modules, i + 1, m.cache)
generate_modules(modules, i, cache) ==
    IF i > Len(modules) THEN <<>>
    ELSE modules_after(modules, i, generate_module(modules[i], cache))

RECURSIVE module_texts(_)
module_texts(ms) == IF Len(ms) = 0 THEN "" ELSE ms[1].text \o module_texts(Tail(ms))

\* NickelCodegen::new().generate(&ir)
rendered(ms) == [modules |-> ms, text |-> module_texts(ms)]
generate(modules) == rendered(generate_modules(modules, 1, EmptyMap))

\* ------------------------------------------------------------------------
\* Schema documents: a JSON Schema node as the extractors see it
\* ------------------------------------------------------------------------
\* kind is the node's "type" (string, number, integer, boolean, null, array,
\* object), or "ref" for {"$ref": ref}, or the combinator it consists of
\* (oneOf, anyOf, allOf, not); properties are <<name, node>> in key order;
\* additional is the additionalProperties key: absent, true, false or schema
SchemaNode(kind) ==
    [kind |-> kind, ref |-> "", items |-> None, properties |-> <<>>, required |-> {},
     additional |-> "absent", members |-> <<>>]
SRef(pointer) == [SchemaNode("ref") EXCEPT !.ref = pointer]
SArray(items) == [SchemaNode("array") EXCEPT !.items = items]
SObject(properties, required, additional) ==
    [SchemaNode("object") EXCEPT !.properties = properties, !.required = required,
                                 !.additional = additional]
SOneOf(members) == [SchemaNode("oneOf") EXCEPT !.members = members]
SAnyOf(members) == [SchemaNode("anyOf") EXCEPT !.members = members]
SNot == SchemaNode("not")

\* ------------------------------------------------------------------------
\* amalgam-parser/src/walkers/crd.rs: CRDWalker::json_schema_to_type
\* ------------------------------------------------------------------------
RECURSIVE crd_json_schema_to_type(_, _)
RECURSIVE crd_fields(_, _, _)
RECURSIVE crd_members(_, _)
crd_fields(properties, required, base_module) ==
    IF Len(properties) = 0 THEN <<>>
    ELSE << <<properties[1][1],
              Field(crd_json_schema_to_type(properties[1][2], base_module),
                    properties[1][1] \in required, None, None)>> >>
         \o crd_fields(Tail(properties), required, base_module)

crd_members(members, base_module) ==
    IF Len(members) = 0 THEN <<>>
    ELSE <<crd_json_schema_to_type(members[1], base_module)>>
         \o crd_members(Tail(members), base_module)

\* additionalProperties.and_then(|v| v.as_bool()).unwrap_or(false)
crd_open(additional) == additional = "true"

crd_json_schema_to_type(schema, base_module) ==
    CASE schema.kind = "ref" ->
            TypeReference(rsplit_next(schema.ref, "/"), Some(base_module))
      [] schema.kind = "string" -> TypeString
      [] schema.kind = "number" -> TypeNumber
      [] schema.kind = "integer" -> TypeInteger
      [] schema.kind = "boolean" -> TypeBool
      [] schema.kind = "null" -> TypeNull
      [] schema.kind = "array" ->
            TypeArray(IF schema.items.some
                      THEN crd_json_schema_to_type(schema.items.value, base_module)
                      ELSE TypeAny)
      [] schema.kind = "object" ->
            TypeRecord(crd_fields(schema.properties, schema.required, base_module),
                       crd_open(schema.additional))
      [] schema.kind \in {"oneOf", "anyOf"} ->
            TypeUnion(crd_members(schema.members, base_module), None)
      [] OTHER -> TypeAny

\* ------------------------------------------------------------------------
\* amalgam-parser/src/walkers/openapi.rs: OpenAPIWalker::schema_to_type.
\* A node of kind "ref" is a ReferenceOr::Reference, any other node a
\* ReferenceOr::Item; schema_to_type is called on Items only.
\* ------------------------------------------------------------------------
RECURSIVE openapi_schema_to_type(_, _)
RECURSIVE openapi_fields(_, _, _)
RECURSIVE openapi_members(_, _)
openapi_fields(properties, required, base_module) ==
    IF Len(properties) = 0 THEN <<>>
    ELSE << <<properties[1][1],
              Field(IF properties[1][2].kind = "ref"
                    THEN TypeReference(rsplit_next(properties[1][2].ref, "/"),
                                       Some(base_module))
                    ELSE openapi_schema_to_type(properties[1][2], base_module),
                    properties[1][1] \in required, None, None)>> >>
         \o openapi_fields(Tail(properties), required, base_module)

\* one_of.iter().filter_map(|r| r.as_item()).map(schema_to_type)
openapi_members(members, base_module) ==
    IF Len(members) = 0 THEN <<>>
    ELSE (IF members[1].kind = "ref" THEN <<>>
          ELSE <<openapi_schema_to_type(members[1], base_module)>>)
         \o openapi_members(Tail(members), base_module)

\* obj.additional_properties.is_some()
openapi_open(additional) == additional # "absent"

openapi_schema_to_type(schema, base_module) ==
    CASE schema.kind = "string" -> TypeString
      [] schema.kind = "number" -> TypeNumber
      [] schema.kind = "integer" -> TypeInteger
      [] schema.kind = "boolean" -> TypeBool
      [] schema.kind = "array" ->
            TypeArray(IF schema.items.some /\ schema.items.value.kind # "ref"
                      THEN openapi_schema_to_type(schema.items.value, base_module)
                      ELSE TypeAny)
      [] schema.kind = "object" ->
            TypeRecord(openapi_fields(schema.properties, schema.required, base_module),
                       openapi_open(schema.additional))
      [] schema.kind = "oneOf" ->
            TypeUnion(openapi_members(schema.members, base_module), None)
      [] OTHER -> TypeAny

\* ------------------------------------------------------------------------
\* amalgam-parser/src/k8s_types.rs: K8sTypesFetcher::json_schema_to_type
\* ------------------------------------------------------------------------
\* str::trim_start_matches: the prefix is removed as often as it leads
RECURSIVE trim_start_matches(_, _)
trim_start_matches(s, p) ==
    IF starts_with(s, p) THEN trim_start_matches(SubSeq(s, Len(p) + 1, Len(s)), p) ELSE s

\* the match on the $ref target: well-known scalar types are resolved,
\* io.k8s. names are split into module and short name
k8s_ref_to_type(ref_path) ==
    LET type_name == trim_start_matches(ref_path, "#/definitions/")
    IN  CASE ends_with(type_name, ".Time") \/ ends_with(type_name, ".MicroTime") -> TypeString
          [] ends_with(type_name, ".Duration") -> TypeString
          [] ends_with(type_name, ".IntOrString") ->
                TypeUnion(<<TypeInteger, TypeString>>, Some(PreferString))
          [] ends_with(type_name, ".Quantity") -> TypeString
          [] ends_with(type_name, ".FieldsV1") -> TypeAny
          [] starts_with(type_name, "io.k8s.") ->
                TypeReference(rsplit_next(type_name, "."),
                              Some(SubSeq(type_name, 1, rfind(type_name, ".") - 1)))
          [] OTHER -> TypeReference(type_name, None)

\* additionalProperties.map(|v| !matches!(v, Value::Bool(false))).unwrap_or(false)
k8s_open(additional) == additional \in {"true", "schema"}

RECURSIVE k8s_json_schema_to_type(_)
RECURSIVE k8s_fields(_, _)
k8s_fields(properties, required) ==
    IF Len(properties) = 0 THEN <<>>
    ELSE << <<properties[1][1],
              Field(k8s_json_schema_to_type(properties[1][2]),
                    properties[1][1] \in required, None, None)>> >>
         \o k8s_fields(Tail(properties), required)

k8s_json_schema_to_type(schema) ==
    CASE schema.kind = "ref" -> k8s_ref_to_type(schema.ref)
      [] schema.kind = "string" -> TypeString
      [] schema.kind = "number" -> TypeNumber
      [] schema.kind = "integer" -> TypeInteger
      [] schema.kind = "boolean" -> TypeBool
      [] schema.kind = "array" ->
            TypeArray(IF schema.items.some
                      THEN k8s_json_schema_to_type(schema.items.value) ELSE TypeAny)
      [] schema.kind = "object" ->
            TypeRecord(k8s_fields(schema.properties, schema.required),
                       k8s_open(schema.additional))
      [] OTHER -> TypeAny

\* ------------------------------------------------------------------------
\* amalgam-parser/src/openapi.rs: OpenAPIParser::schema_to_type, a
\* Result<Type, ParserError>
\* ------------------------------------------------------------------------
Ok(v) == [ok |-> TRUE, value |-> v]
Err(e) == [ok |-> FALSE, error |-> e]

RECURSIVE parser_schema_to_type(_)
RECURSIVE parser_fields(_, _)
RECURSIVE parser_members(_)
\* property references are skipped; the first Err ends the loop
parser_fields(properties, required) ==
    IF Len(properties) = 0 THEN Ok(<<>>)
    ELSE IF properties[1][2].kind = "ref" THEN parser_fields(Tail(properties), required)
    ELSE LET first == parser_schema_to_type(properties[1][2])
         IN  IF ~first.ok THEN first
             ELSE LET rest == parser_fields(Tail(properties), required)
                  IN  IF ~rest.ok THEN rest
                      ELSE Ok(<< <<properties[1][1],
                                   Field(first.value, properties[1][1] \in required,
                                         None, None)>> >> \o rest.value)

parser_members(members) ==
    IF Len(members) = 0 THEN Ok(<<>>)
    ELSE IF members[1].kind = "ref" THEN parser_members(Tail(members))
    ELSE LET first == parser_schema_to_type(members[1])
         IN  IF ~first.ok THEN first
             ELSE LET rest == parser_members(Tail(members))
                  IN  IF ~rest.ok THEN rest ELSE Ok(<<first.value>> \o rest.value)

parser_array(item) == IF item.ok THEN Ok(TypeArray(item.value)) ELSE item
parser_record(fields, additional) ==
    IF fields.ok THEN Ok(TypeRecord(fields.value, additional # "absent")) ELSE fields
parser_union(types) == IF types.ok THEN Ok(TypeUnion(types.value, None)) ELSE types

parser_schema_to_type(schema) ==
    CASE schema.kind = "string" -> Ok(TypeString)
      [] schema.kind = "number" -> Ok(TypeNumber)
      [] schema.kind = "integer" -> Ok(TypeInteger)
      [] schema.kind = "boolean" -> Ok(TypeBool)
      [] schema.kind = "array" ->
            IF schema.items.some /\ schema.items.value.kind # "ref"
            THEN parser_array(parser_schema_to_type(schema.items.value))
            ELSE Ok(TypeArray(TypeAny))
      [] schema.kind = "object" ->
            parser_record(parser_fields(schema.properties, schema.required),
                          schema.additional)
      [] schema.kind \in {"oneOf", "anyOf"} -> parser_union(parser_members(schema.members))
      [] schema.kind = "not" -> Err("UnsupportedFeature")
      [] OTHER -> Ok(TypeAny)

\* ------------------------------------------------------------------------
\* State
\* ------------------------------------------------------------------------
VARIABLES
    ts_types,   \* TypeSystem.types: the reference side table, name -> Type
    compat,     \* the last is_compatible call: its arguments and its result
    walker,     \* the walker that runs: "crd", "openapi" or "package"
    pkg_version,    \* the version argument of PackageWalkerAdapter::generate_ir
    registry,   \* the TypeRegistry
    deps,       \* the DependencyGraph
    ir,         \* the result of generate_ir
    out,        \* the result of NickelCodegen::generate on ir
    pc,         \* the stage the pipeline has reached
    rs,         \* a TypeResolver: its cache, the calls made, the last call
    em,         \* the emitter: the record it is given, the call made, its text
    ex,         \* schema extraction: the input document and what came of it
    tr,         \* a TypeReference::import_path call: its arguments and its path
    kf,         \* K8sTypesFetcher::extract_core_types: queue, processed, types
    mf,         \* Manifest::generate_all: the packages and the report
    da          \* a DependencyAnalyzer: its registries and the last result

\* TypeResolver::new: an empty cache, no call made yet
IdleResolver ==
    [cache |-> <<>>, calls |-> 0,
     last |-> [reference |-> "", module |-> 0, result |-> "", before |-> <<>>]]

cvars == <<ts_types, compat>>
wvars == <<walker, pkg_version, registry, deps, ir, out, pc>>
\* the emitter and the extractors before they are given anything
IdleEmitter == [op |-> "idle"]
IdleExtractor == [op |-> "idle"]

pvars == <<rs, em, ex>>

\* the import-path calculator, the k8s fetcher, the manifest and the
\* dependency analyzer before they are given anything
IdleReference == [op |-> "idle"]
IdleFetcher == [op |-> "idle"]
IdleManifest == [op |-> "idle"]
IdleAnalyzer == [op |-> "idle"]
qvars == <<tr, kf, mf, da>>
IdleTools ==
    /\ tr = IdleReference
    /\ kf = IdleFetcher
    /\ mf = IdleManifest
    /\ da = IdleAnalyzer
vars ==
    <<ts_types, compat, walker, pkg_version, registry, deps, ir, out, pc, rs, em, ex,
      tr, kf, mf, da>>

\* ------------------------------------------------------------------------
\* The TypeSystem as a state machine
\* ------------------------------------------------------------------------
\* TypeSystem::register
Register(name, ty) ==
    /\ ~compat.called
    /\ ts_types' = [n \in DOMAIN ts_types \cup {name} |->
                        IF n = name THEN ty ELSE ts_types[n]]
    /\ UNCHANGED <<compat, wvars, pvars, qvars>>

\* TypeSystem::is_compatible applied to the arguments drawn in InitCompat
IsCompatible ==
    /\ ~compat.called
    /\ compat' = [compat EXCEPT !.called = TRUE,
                     !.result = is_compatible(ts_types, compat.source, compat.target, MaxDepth)]
    /\ UNCHANGED <<ts_types, wvars, pvars, qvars>>

InitCompat ==
    /\ ts_types = <<>>
    /\ \E source \in TypeUniverse, target \in TypeUniverse :
           compat = [called |-> FALSE, source |-> source, target |-> target,
                     result |-> "none"]
    /\ walker = "crd"
    /\ pkg_version = "v1alpha1"
    /\ registry = [types |-> <<>>, modules |-> <<>>]
    /\ deps = [dependencies |-> <<>>, dependents |-> <<>>]
    /\ ir = [status |-> "none", modules |-> <<>>]
    /\ out = [status |-> "none"]
    /\ pc = "idle"
    /\ rs = IdleResolver
    /\ IdleTools
    /\ em = IdleEmitter
    /\ ex = IdleExtractor

NextCompat ==
    \/ \E name \in TsNames, ty \in Registrable : Register(name, ty)
    \/ IsCompatible

SpecCompat == InitCompat /\ [][NextCompat]_vars

\* ------------------------------------------------------------------------
\* The pipeline: registry -> build_dependencies -> generate_ir -> generate
\* ------------------------------------------------------------------------
K8sMeta == "io.k8s.apimachinery.pkg.apis.meta.v1"
Ref(name, module) == TypeReference(name, Some(module))
Plain(ty) == Field(ty, FALSE, None, None)

\* The type definitions the model feeds to the walkers, each with the
\* module (group.version) that owns it.
Candidates == <<
    [module |-> "example.io.v1",
     def |-> TypeDefinition("Test", TypeRecord(<<
                <<"image", Field(TypeString, TRUE, None, None)>>,
                <<"replicas", Plain(TypeInteger)>> >>, FALSE), None)],
    [module |-> "example.io.v1",
     def |-> TypeDefinition("Status", TypeRecord(<<
                <<"condition", Plain(Ref("Condition", K8sMeta))>>,
                <<"owner", Plain(Ref("Tree", "example.io.v1alpha1"))>> >>, FALSE), None)],
    [module |-> "example.io.v1alpha1",
     def |-> TypeDefinition("Widget", TypeRecord(<<
                <<"spec", Plain(Ref("ObjectMeta", K8sMeta))>> >>, FALSE), None)],
    [module |-> "example.io.v1alpha1",
     def |-> TypeDefinition("Tree", TypeRecord(<<
                <<"base", Plain(Ref("Test", "example.io.v1"))>>,
                <<"children", Plain(TypeArray(Ref("Tree", "example.io.v1alpha1")))>>,
                <<"metadata", Plain(Ref("ObjectMeta", K8sMeta))>>,
                <<"status", Plain(Ref("Status", "example.io.v1"))>> >>, FALSE), None)],
    [module |-> "example.io.v1alpha1",
     def |-> TypeDefinition("Audit", TypeRecord(<<
                <<"first", Plain(Ref("Event", "io.k8s.api.core.v1"))>>,
                <<"last", Plain(Ref("Event", "io.k8s.api.events.v1beta1"))>>,
                <<"selector", Plain(Ref("LabelSelector", K8sMeta))>> >>, FALSE), None)],
    [module |-> "io.k8s.api.storage.v1alpha1",
     def |-> TypeDefinition("VolumeAttributesClass", TypeRecord(<<
                <<"metadata", Plain(Ref("ObjectMeta", K8sMeta))>> >>, FALSE), None)],
    [module |-> "example.io",
     def |-> TypeDefinition("Root", TypeRecord(<<
                <<"child", Plain(Ref("Test", "example.io.v1"))>> >>, TRUE), None)]
>>

\* the registry key of a definition: "{module}.{name}" (CRDWalker and
\* OpenAPIWalker::extract_types), with the kind lower-cased by
\* PackageWalkerAdapter::build_registry
registry_fqn(w, module, name) ==
    IF w = "package" THEN module \o "." \o to_lowercase(name)
    ELSE module \o "." \o name

\* the number of add_type calls made so far
RECURSIVE sum_lens(_, _)
sum_lens(modules, keys) ==
    IF keys = {} THEN 0
    ELSE LET k == CHOOSE x \in keys : TRUE
         IN  Len(modules[k]) + sum_lens(modules, keys \ {k})

InitWalk ==
    /\ walker \in {"crd", "openapi", "package"}
    /\ pkg_version \in {"v1", "v1alpha1"}
    /\ walker # "package" => pkg_version = "v1alpha1"
    /\ registry = NewRegistry
    /\ deps = NewGraph
    /\ ir = [status |-> "none", modules |-> <<>>]
    /\ out = [status |-> "none"]
    /\ pc = "extract"
    /\ ts_types = <<>>
    /\ compat = [called |-> FALSE, source |-> TypeAny, target |-> TypeAny,
                 result |-> "none"]
    /\ rs = IdleResolver
    /\ IdleTools
    /\ em = IdleEmitter
    /\ ex = IdleExtractor

\* the candidates already in the registry; the input lists its definitions
\* in the order of Candidates
candidate_fqn(c) == registry_fqn(walker, Candidates[c].module, Candidates[c].def.name)
registered == {c \in DOMAIN Candidates : candidate_fqn(c) \in DOMAIN registry.types}

\* extract_types / build_registry: one TypeRegistry::add_type call
AddType(c) ==
    /\ pc = "extract"
    /\ sum_lens(registry.modules, DOMAIN registry.modules) < MaxTypes
    /\ \A j \in registered : j < c
    /\ registry' = add_type(registry, candidate_fqn(c), Candidates[c].def)
    /\ UNCHANGED <<walker, pkg_version, deps, ir, out, pc, cvars, pvars, qvars>>

\* <walker>::build_dependencies
BuildDependencies ==
    /\ pc = "extract"
    /\ deps' = build_dependencies(walker, registry)
    /\ pc' = "deps"
    /\ UNCHANGED <<walker, pkg_version, registry, ir, out, cvars, pvars, qvars>>

\* <walker>::generate_ir
GenerateIr ==
    /\ pc = "deps"
    /\ ir' \in generate_ir(walker, registry, deps, pkg_version)
    /\ pc' = "ir"
    /\ UNCHANGED <<walker, pkg_version, registry, deps, out, cvars, pvars, qvars>>

\* NickelCodegen::new().generate(&ir) on the IR a walker produced
Generate ==
    /\ pc = "ir"
    /\ ir.status = "ok"
    /\ out' = [status |-> "ok"] @@ generate(ir.modules)
    /\ pc' = "done"
    /\ UNCHANGED <<walker, pkg_version, registry, deps, ir, cvars, pvars, qvars>>

NextWalk ==
    \/ \E c \in DOMAIN Candidates : AddType(c)
    \/ BuildDependencies
    \/ GenerateIr
    \/ Generate

SpecWalk == InitWalk /\ [][NextWalk]_vars

\* the TypeSystem and the pipeline at rest, for the machines that use neither
IdleTypeSystem ==
    /\ ts_types = <<>>
    /\ compat = [called |-> FALSE, source |-> TypeAny, target |-> TypeAny,
                 result |-> "none"]
IdlePipeline ==
    /\ walker = "crd"
    /\ pkg_version = "v1alpha1"
    /\ registry = NewRegistry
    /\ deps = NewGraph
    /\ ir = [status |-> "none", modules |-> <<>>]
    /\ out = [status |-> "none"]
    /\ pc = "idle"

\* ------------------------------------------------------------------------
\* One TypeResolver used for several modules (hand-built IR)
\* ------------------------------------------------------------------------
\* Number of TypeResolver::resolve calls made on one resolver.
MaxCalls == 2

\* the modules the resolver is asked about: their imports and local types
RModules == <<
    Module("test",
           <<Import("../../../k8s.io/apimachinery/v1/mod.ncl", Some("k8s_v1"), <<>>)>>,
           <<>>),
    Module("local", <<>>,
           <<TypeDefinition("MyType", TypeString, None),
             TypeDefinition("ObjectMeta", TypeString, None)>>),
    Module("mixed",
           <<Import("../v1/event.ncl", None, <<>>),
             Import("../../k8s_io/v1/objectmeta.ncl", Some("k8s_io_v1"), <<>>)>>,
           <<TypeDefinition("Time", TypeString, None)>>),
    Module("crossplane",
           <<Import("composition.ncl", Some("bare"), <<>>),
             Import("../../apiextensions.crossplane.io/v1/composition.ncl",
                    Some("crossplane_v1"), <<>>)>>,
           <<TypeDefinition("Composition", TypeString, None)>>)
>>

RReferences ==
    {"ObjectMeta", "Time", "MyType", "UnknownType", "Composition",
     "io.k8s.apimachinery.pkg.apis.meta.v1.ObjectMeta",
     "io.k8s.api.events.v1beta1.Event",
     "apiextensions.crossplane.io/v1/Composition"}

\* resolver.resolve(reference, &RModules[m], &context)
resolve_call(r, reference, m, res) ==
    [cache |-> res.cache, calls |-> r.calls + 1,
     last |-> [reference |-> reference, module |-> m, result |-> res.name,
               before |-> r.cache]]
Resolve(reference, m) ==
    /\ rs.calls < MaxCalls
    /\ rs' = resolve_call(rs, reference, m, resolver_resolve(rs.cache, reference, RModules[m]))
    /\ UNCHANGED <<cvars, wvars, qvars, em, ex>>

InitResolve ==
    /\ rs = IdleResolver
    /\ IdleTools
    /\ em = IdleEmitter
    /\ ex = IdleExtractor
    /\ IdleTypeSystem
    /\ IdlePipeline

NextResolve == \E reference \in RReferences, m \in DOMAIN RModules : Resolve(reference, m)

SpecResolve == InitResolve /\ [][NextResolve]_vars

\* ------------------------------------------------------------------------
\* The emitter applied to records: type_to_nickel and field_to_nickel
\* ------------------------------------------------------------------------
\* Number of fields of the record handed to the emitter.
MaxFields == 2

EFieldNames == {"replicas", "if", "$ref", "@type", "optional"}

\* a default object with keys to escape at two depths
NestedDefault ==
    JsonObject(<< <<"$ref", JsonString("#/x")>>,
                  <<"limits", JsonObject(<< <<"@type", JsonBool(TRUE)>>,
                                            <<"cpu", JsonNumber(2)>>,
                                            <<"if", JsonNull>> >>)>> >>)

EFieldKinds ==
    {Field(TypeString, TRUE, None, None),
     Field(TypeInteger, FALSE, Some("Number of replicas"), Some(JsonNumber(3))),
     Field(TypeInteger, TRUE, Some("Always set"), Some(JsonNumber(1))),
     Field(TypeOptional(TypeString), FALSE, Some("a \"quoted\" word"), None),
     Field(TypeRecord(<<>>, TRUE), FALSE, None, Some(NestedDefault)),
     Field(TypeRecord(<< <<"inner", Field(TypeBool, FALSE, None, None)>> >>, TRUE),
           TRUE, None, None)}

EEntries == {<<n, f>> : n \in EFieldNames, f \in EFieldKinds}

\* BTreeMap<String, Field>: the entries in the order of their keys
ERecordFields ==
    {fs \in UNION {[1..n -> EEntries] : n \in 0..MaxFields} :
        \A i \in 1..(Len(fs) - 1) : str_lt(fs[i][1], fs[i + 1][1])}

\* the module whose types are rendered
EModule == Module("emit", <<>>, <<>>)

\* NickelCodegen::new().type_to_nickel(&record, &module, 0)
EmitType ==
    /\ em.op = "input"
    /\ em' = [em EXCEPT !.op = "type",
                        !.result = type_to_nickel(em.record, EModule, 0, NewCodegen).s]
    /\ UNCHANGED <<cvars, wvars, qvars, rs, ex>>

\* NickelCodegen::new().field_to_nickel(name, field, &module, 1) for the
\* i-th field of the record
EmitField(i) ==
    /\ em.op = "input"
    /\ i \in 1..Len(em.record.fields)
    /\ em' = [em EXCEPT !.op = "field", !.at = i,
                        !.result = field_to_nickel(em.record.fields[i][1],
                                                   em.record.fields[i][2],
                                                   EModule, 1, NewCodegen).s]
    /\ UNCHANGED <<cvars, wvars, qvars, rs, ex>>

InitEmit ==
    /\ \E fields \in ERecordFields, open \in BOOLEAN :
           em = [op |-> "input", record |-> TypeRecord(fields, open), at |-> 0,
                 result |-> ""]
    /\ rs = IdleResolver
    /\ IdleTools
    /\ ex = IdleExtractor
    /\ IdleTypeSystem
    /\ IdlePipeline

NextEmit ==
    \/ EmitType
    \/ \E i \in 1..MaxFields : EmitField(i)

SpecEmit == InitEmit /\ [][NextEmit]_vars

\* ------------------------------------------------------------------------
\* The extractors: a document of schema units is handed to one of
\* CRDWalker::extract_types, OpenAPIWalker::extract_types,
\* K8sTypesFetcher::schema_to_type_definition, CRDParser::parse,
\* CRDParser::parse_version and OpenAPIParser::parse
\* ------------------------------------------------------------------------
MaxUnits == 2

\* the group and kind of the CRD, the names of its versions, the names of
\* the document's named schemas, and the walkers' base_module
Group == "example.io"
Kind == "Widget"
VersionNames == <<"v1", "v1beta1", "v2", "v3">>
SchemaNames == <<"Alpha", "Beta", "Delta", "Gamma">>
BaseModule == "example.io.v1"

GadgetPointer == "#/components/schemas/Gadget"
MetaPointer == "#/definitions/io.k8s.apimachinery.pkg.apis.meta.v1.ObjectMeta"

ELeaves ==
    {SchemaNode("string"), SchemaNode("integer"), SRef(GadgetPointer),
     SRef(MetaPointer), SNot}
ECombined ==
    {SArray(None), SArray(Some(SchemaNode("string"))), SArray(Some(SRef(GadgetPointer))),
     SOneOf(<<SRef(GadgetPointer), SchemaNode("string")>>),
     SAnyOf(<<SchemaNode("integer"), SRef(MetaPointer)>>)}
EProperties ==
    {<<>>,
     << <<"owner", SRef(GadgetPointer)>> >>,
     << <<"owner", SchemaNode("string")>>,
        <<"tags", SArray(Some(SRef(MetaPointer)))>> >>,
     << <<"limits", SNot>>, <<"owner", SchemaNode("integer")>> >>,
     << <<"owner", SObject(<< <<"size", SchemaNode("integer")>> >>, {}, "schema")>> >>}
EObjects ==
    {SObject(properties, {"owner"}, additional) :
        properties \in EProperties, additional \in {"absent", "true", "false", "schema"}}
ENodes == ELeaves \cup ECombined \cup EObjects

\* a document: its units in order, each with or without a schema
EUnits == {None} \cup {Some(node) : node \in ENodes}
EDocuments == UNION {[1..n -> EUnits] : n \in 1..MaxUnits}

NoResult ==
    [status |-> "none", error |-> "", reported |-> {}, registry |-> NewRegistry,
     modules |-> <<>>, converted |-> <<>>, asked |-> 0]

\* CRDWalker::extract_types: the loop over input.versions; the schema of a
\* unit is the spec property of the version's openAPIV3Schema, a unit
\* without schema is a version whose schema value lacks it. The documents
\* carry no status property.
RECURSIVE crd_extract_types(_, _, _)
crd_extract_types(versions, i, registry0) ==
    IF i > Len(versions) THEN registry0
    ELSE crd_extract_types(versions, i + 1,
            IF versions[i].some
            THEN add_type(registry0, Group \o "." \o VersionNames[i] \o ".Spec",
                          TypeDefinition("Spec",
                              crd_json_schema_to_type(versions[i].value, BaseModule), None))
            ELSE registry0)

CRDWalkerExtractTypes ==
    /\ ex.op = "input"
    /\ ex' = [ex EXCEPT !.op = "CRDWalker::extract_types", !.status = "ok",
                        !.registry = crd_extract_types(ex.doc, 1, NewRegistry)]
    /\ UNCHANGED <<cvars, wvars, qvars, rs, em>>

\* OpenAPIWalker::extract_types: the loop over components.schemas; a
\* named schema that is a reference is passed over
RECURSIVE openapi_extract_types(_, _, _)
openapi_extract_types(schemas, i, registry0) ==
    IF i > Len(schemas) THEN registry0
    ELSE openapi_extract_types(schemas, i + 1,
            IF schemas[i].value.kind # "ref"
            THEN add_type(registry0, BaseModule \o "." \o SchemaNames[i],
                          TypeDefinition(SchemaNames[i],
                              openapi_schema_to_type(schemas[i].value, BaseModule), None))
            ELSE registry0)

\* an OpenAPI document has a schema under every name
complete(doc) == \A i \in DOMAIN doc : doc[i].some

OpenAPIWalkerExtractTypes ==
    /\ ex.op = "input"
    /\ complete(ex.doc)
    /\ ex' = [ex EXCEPT !.op = "OpenAPIWalker::extract_types", !.status = "ok",
                        !.registry = openapi_extract_types(ex.doc, 1, NewRegistry)]
    /\ UNCHANGED <<cvars, wvars, qvars, rs, em>>

\* K8sTypesFetcher::schema_to_type_definition on one definition
SchemaToTypeDefinition(i) ==
    /\ ex.op = "input"
    /\ i \in DOMAIN ex.doc
    /\ ex.doc[i].some
    /\ ex' = [ex EXCEPT !.op = "K8sTypesFetcher::schema_to_type_definition",
                        !.status = "ok",
                        !.converted = << <<SchemaNames[i],
                                           k8s_json_schema_to_type(ex.doc[i].value)>> >>]
    /\ UNCHANGED <<cvars, wvars, qvars, rs, em>>

\* CRDParser::parse: one module per version that has a schema, named
\* "{kind}.{version}.{group}" and holding the type {kind}; without any, one
\* empty module "{kind}.{group}". json_schema_to_type and
\* enhance_kubernetes_type return Ok on every input.
RECURSIVE crd_parse_modules(_, _)
crd_parse_modules(versions, i) ==
    IF i > Len(versions) THEN <<>>
    ELSE (IF versions[i].some
          THEN <<[name |-> Kind \o "." \o VersionNames[i] \o "." \o Group,
                  types |-> <<Kind>>]>>
          ELSE <<>>) \o crd_parse_modules(versions, i + 1)

crd_parse(versions) ==
    IF crd_parse_modules(versions, 1) = <<>>
    THEN <<[name |-> Kind \o "." \o Group, types |-> <<>>]>>
    ELSE crd_parse_modules(versions, 1)

CRDParserParse ==
    /\ ex.op = "input"
    /\ ex' = [ex EXCEPT !.op = "CRDParser::parse", !.status = "ok",
                        !.modules = crd_parse(ex.doc)]
    /\ UNCHANGED <<cvars, wvars, qvars, rs, em>>

\* CRDParser::parse_version(crd, VersionNames[v])
ParseVersion(v) ==
    /\ ex.op = "input"
    /\ ex' = IF v \notin DOMAIN ex.doc
             THEN [ex EXCEPT !.op = "CRDParser::parse_version", !.asked = v,
                             !.status = "err", !.error = "Parse: version not found",
                             !.reported = {VersionNames[v]}]
             ELSE IF ex.doc[v].some
             THEN [ex EXCEPT !.op = "CRDParser::parse_version", !.asked = v,
                             !.status = "ok",
                             !.modules =
                                 <<[name |-> Kind \o "." \o VersionNames[v] \o "." \o Group,
                                    types |-> <<Kind>>]>>]
             ELSE [ex EXCEPT !.op = "CRDParser::parse_version", !.asked = v,
                             !.status = "err", !.error = "Parse: version has no schema",
                             !.reported = {VersionNames[v]}]
    /\ UNCHANGED <<cvars, wvars, qvars, rs, em>>

\* OpenAPIParser::parse: the loop over components.schemas into the module
\* "openapi"; the first Err of schema_to_type is the result of parse
RECURSIVE openapi_parse(_, _, _)
openapi_parse(schemas, i, types) ==
    IF i > Len(schemas) THEN Ok(types)
    ELSE IF schemas[i].value.kind = "ref" THEN openapi_parse(schemas, i + 1, types)
    ELSE IF ~parser_schema_to_type(schemas[i].value).ok
         THEN parser_schema_to_type(schemas[i].value)
    ELSE openapi_parse(schemas, i + 1,
            Append(types, <<SchemaNames[i], parser_schema_to_type(schemas[i].value).value>>))

parsed_names(types) == [i \in 1..Len(types) |-> types[i][1]]

OpenAPIParserParse ==
    /\ ex.op = "input"
    /\ complete(ex.doc)
    /\ ex' = IF openapi_parse(ex.doc, 1, <<>>).ok
             THEN [ex EXCEPT !.op = "OpenAPIParser::parse", !.status = "ok",
                             !.converted = openapi_parse(ex.doc, 1, <<>>).value,
                             !.modules =
                                 <<[name |-> "openapi",
                                    types |-> parsed_names(openapi_parse(ex.doc, 1, <<>>).value)]>>]
             ELSE [ex EXCEPT !.op = "OpenAPIParser::parse", !.status = "err",
                             !.error = openapi_parse(ex.doc, 1, <<>>).error]
    /\ UNCHANGED <<cvars, wvars, qvars, rs, em>>

InitExtract ==
    /\ ex \in {[op |-> "input", doc |-> doc] @@ NoResult : doc \in EDocuments}
    /\ rs = IdleResolver
    /\ IdleTools
    /\ em = IdleEmitter
    /\ IdleTypeSystem
    /\ IdlePipeline

NextExtract ==
    \/ CRDWalkerExtractTypes
    \/ OpenAPIWalkerExtractTypes
    \/ \E i \in 1..MaxUnits : SchemaToTypeDefinition(i)
    \/ CRDParserParse
    \/ \E v \in 1..(MaxUnits + 1) : ParseVersion(v)
    \/ OpenAPIParserParse

SpecExtract == InitExtract /\ [][NextExtract]_vars

\* ------------------------------------------------------------------------
\* The two tables of walkers/mod.rs under any sequence of calls:
\* TypeRegistry::add_type and DependencyGraph::add_dependency
\* ------------------------------------------------------------------------
MaxAdds == 3
MaxEdges == 3

\* the fully qualified names the calls are made with; "Standalone" has no
\* module part
TableNames == {"example.io.v1.Widget", "example.io.v1beta1.Widget", "Standalone"}
TableDefinitions ==
    {TypeDefinition("Widget", TypeString, None), TypeDefinition("Widget", TypeInteger, None)}

\* the number of entries of the sets of a map of sets
RECURSIVE sum_cards(_, _)
sum_cards(map, keys) ==
    IF keys = {} THEN 0
    ELSE LET k == CHOOSE x \in keys : TRUE
         IN  Cardinality(map[k]) + sum_cards(map, keys \ {k})

\* registry.add_type(fqn, type_def)
AddTypeCall(fqn, type_def) ==
    /\ pc = "tables"
    /\ sum_lens(registry.modules, DOMAIN registry.modules) < MaxAdds
    /\ registry' = add_type(registry, fqn, type_def)
    /\ UNCHANGED <<walker, pkg_version, deps, ir, out, pc, cvars, pvars, qvars>>

\* graph.add_dependency(from, to)
AddDependencyCall(from, to) ==
    /\ pc = "tables"
    /\ sum_cards(deps.dependencies, DOMAIN deps.dependencies) < MaxEdges
    /\ deps' = add_dependency(deps, from, to)
    /\ UNCHANGED <<walker, pkg_version, registry, ir, out, pc, cvars, pvars, qvars>>

InitTables ==
    /\ walker = "crd"
    /\ pkg_version = "v1alpha1"
    /\ registry = NewRegistry
    /\ deps = NewGraph
    /\ ir = [status |-> "none", modules |-> <<>>]
    /\ out = [status |-> "none"]
    /\ pc = "tables"
    /\ rs = IdleResolver
    /\ IdleTools
    /\ em = IdleEmitter
    /\ ex = IdleExtractor
    /\ IdleTypeSystem

NextTables ==
    \/ \E fqn \in TableNames, type_def \in TableDefinitions : AddTypeCall(fqn, type_def)
    \/ \E from \in TableNames, to \in TableNames : AddDependencyCall(from, to)

SpecTables == InitTables /\ [][NextTables]_vars

\* every machine but the tools at rest
IdleMachines ==
    /\ IdleTypeSystem
    /\ IdlePipeline
    /\ rs = IdleResolver
    /\ em = IdleEmitter
    /\ ex = IdleExtractor

\* ------------------------------------------------------------------------
\* amalgam-parser/src/imports.rs: TypeReference::import_path
\* ------------------------------------------------------------------------
\* str::replace(from, to) for single characters
RECURSIVE replace_char(_, _, _)
replace_char(s, from, to) ==
    IF Len(s) = 0 THEN ""
    ELSE (IF CharAt(s, 1) = from THEN to ELSE CharAt(s, 1))
         \o replace_char(Tail(s), from, to)

\* the closure group_to_package: the directory of the package of a group
group_to_package(group) ==
    LET sanitized == replace_char(group, ".", "_")
        parts == split(group, ".")
    IN  IF contains(group, ".") /\ Len(parts) >= 2
           /\ parts[Len(parts)] \in {"io", "com", "org"} /\ Len(parts) >= 3
        THEN parts[Len(parts) - 1]
        ELSE sanitized

\* the closure needs_group_subdir
needs_group_subdir(group, package) ==
    replace_char(group, ".", "_") # package /\ contains(group, ".")

\* from_components / the directories of to_components
path_components(group, version) ==
    <<group_to_package(group)>>
    \o (IF needs_group_subdir(group, group_to_package(group)) THEN <<group>> ELSE <<>>)
    \o <<version>>

\* let up_count = from_components.len()
up_count_below_package(from_components) == Len(from_components) - 1
up_count(from_components) == Len(from_components)

TypeReferenceNew(group, version, kind) == [group |-> group, version |-> version, kind |-> kind]

import_path(self, from_group, from_version) ==
    repeat("../", up_count(path_components(from_group, from_version)))
    \o join(path_components(self.group, self.version)
            \o <<to_lowercase(self.kind) \o ".ncl">>, "/")

\* the references and consumers import_path is called with
IGroups ==
    {"k8s.io", "apiextensions.crossplane.io", "example.io", "core", "apps.example.com",
     "my.group.net"}
IVersions == {"v1", "v1beta1"}
IKinds == {"ObjectMeta", "Pod"}

\* self.import_path(from_group, from_version)
ImportPath ==
    /\ tr.op = "input"
    /\ tr' = [tr EXCEPT !.op = "import_path",
                        !.path = import_path(tr.self, tr.from_group, tr.from_version)]
    /\ UNCHANGED <<cvars, wvars, pvars, kf, mf, da>>

InitImportPath ==
    /\ \E group \in IGroups, version \in IVersions, kind \in IKinds,
          from_group \in IGroups, from_version \in IVersions :
           tr = [op |-> "input", self |-> TypeReferenceNew(group, version, kind),
                 from_group |-> from_group, from_version |-> from_version, path |-> ""]
    /\ kf = IdleFetcher
    /\ mf = IdleManifest
    /\ da = IdleAnalyzer
    /\ IdleMachines

NextImportPath == ImportPath

SpecImportPath == InitImportPath /\ [][NextImportPath]_vars

\* ------------------------------------------------------------------------
\* The import path a walker computes for a dependency on a platform type:
\* PackageWalkerAdapter (build_dependencies, then calculate_import in
\* generate_ir) and CRDWalker (extract_references, then map_k8s_import_path
\* in generate_ir; a key that starts with "../" is the Import's path)
\* ------------------------------------------------------------------------
PlatformNamespaces ==
    {"io.k8s.api.core", "io.k8s.api.apps", "io.k8s.api.autoscaling",
     "io.k8s.apimachinery.pkg.apis.meta"}
PlatformVersions == {"v1", "v1alpha1", "v1beta1", "v1beta2", "v2", "v2beta1"}
PlatformTypes == {"ObjectMeta", "Event"}
ConsumerVersions == {"v1", "v1beta1"}

\* the consuming type: example.io.<version>.widget resp. .Widget
consumer_fqn(w, version) == registry_fqn(w, "example.io." \o version, "Widget")

CalculateImport ==
    /\ tr.op = "input"
    /\ tr' = [tr EXCEPT !.op = "PackageWalkerAdapter::calculate_import",
                 !.path = calculate_import(
                              package_dep_fqn(consumer_fqn("package", tr.version), tr.reference),
                              tr.version)[1]]
    /\ UNCHANGED <<cvars, wvars, pvars, kf, mf, da>>

MapK8sImportPath ==
    /\ tr.op = "input"
    /\ tr' = [tr EXCEPT !.op = "CRDWalker::map_k8s_import_path",
                 !.path = crd_import(extract_module(consumer_fqn("crd", tr.version)),
                                     [key |-> map_k8s_import_path(
                                                  referenced_fqn("crd",
                                                      consumer_fqn("crd", tr.version),
                                                      tr.reference))],
                                     <<tr.reference.name>>).path]
    /\ UNCHANGED <<cvars, wvars, pvars, kf, mf, da>>

InitPlatformImport ==
    /\ \E namespace \in PlatformNamespaces, to_version \in PlatformVersions,
          name \in PlatformTypes, version \in ConsumerVersions :
           tr = [op |-> "input",
                 reference |-> [name |-> name,
                                module |-> Some(namespace \o "." \o to_version)],
                 to_version |-> to_version, version |-> version, path |-> ""]
    /\ kf = IdleFetcher
    /\ mf = IdleManifest
    /\ da = IdleAnalyzer
    /\ IdleMachines

NextPlatformImport ==
    \/ CalculateImport
    \/ MapK8sImportPath

SpecPlatformImport == InitPlatformImport /\ [][NextPlatformImport]_vars

\* ------------------------------------------------------------------------
\* amalgam-cli/src/manifest.rs: Manifest::generate_all
\* ------------------------------------------------------------------------
MaxPackages == 3

\* the packages of a manifest in order; outcome is what generate_package
\* returns for the package when it is called (network, files and the
\* generators decide it)
PackageNames == <<"k8s-io", "crossplane", "argocd", "cert-manager">>
PackageSettings == [enabled : BOOLEAN, outcome : {"ok", "err"}]
Manifests == UNION {[1..n -> PackageSettings] : n \in 0..MaxPackages}

\* GenerationReport::default
NewReport == [successful |-> <<>>, failed |-> <<>>, skipped |-> <<>>]

\* where the loop goes on after a package whose generation failed: the
\* Err arm pushes to report.failed and the loop takes the next package
after_failure_return(at, count) == count + 1
after_failure(at, count) == at + 1

\* fs::create_dir_all(&self.config.output_base)?: the file system decides
CreateOutputBase ==
    /\ mf.op = "called"
    /\ \/ mf' = [mf EXCEPT !.op = "loop", !.at = 1]
       \/ mf' = [mf EXCEPT !.op = "returned", !.result = "err"]
    /\ UNCHANGED <<cvars, wvars, pvars, tr, kf, da>>

\* if !package.enabled { report.skipped.push(name); continue }
SkipPackage ==
    /\ mf.op = "loop"
    /\ mf.at <= Len(mf.packages)
    /\ ~mf.packages[mf.at].enabled
    /\ mf' = [mf EXCEPT !.report.skipped = Append(@, PackageNames[mf.at]),
                        !.at = mf.at + 1]
    /\ UNCHANGED <<cvars, wvars, pvars, tr, kf, da>>

\* generate_package(package).await returns Ok
PackageGenerated ==
    /\ mf.op = "loop"
    /\ mf.at <= Len(mf.packages)
    /\ mf.packages[mf.at].enabled
    /\ mf.packages[mf.at].outcome = "ok"
    /\ mf' = [mf EXCEPT !.generated = Append(@, PackageNames[mf.at]),
                        !.report.successful = Append(@, PackageNames[mf.at]),
                        !.at = mf.at + 1]
    /\ UNCHANGED <<cvars, wvars, pvars, tr, kf, da>>

\* generate_package(package).await returns Err(e)
PackageFailed ==
    /\ mf.op = "loop"
    /\ mf.at <= Len(mf.packages)
    /\ mf.packages[mf.at].enabled
    /\ mf.packages[mf.at].outcome = "err"
    /\ mf' = [mf EXCEPT !.generated = Append(@, PackageNames[mf.at]),
                        !.report.failed = Append(@, <<PackageNames[mf.at], "error">>),
                        !.at = after_failure(mf.at, Len(mf.packages))]
    /\ UNCHANGED <<cvars, wvars, pvars, tr, kf, da>>

\* Ok(report)
ReturnReport ==
    /\ mf.op = "loop"
    /\ mf.at > Len(mf.packages)
    /\ mf' = [mf EXCEPT !.op = "returned", !.result = "ok"]
    /\ UNCHANGED <<cvars, wvars, pvars, tr, kf, da>>

InitManifest ==
    /\ \E packages \in Manifests :
           mf = [op |-> "called", packages |-> packages, at |-> 0, report |-> NewReport,
                 generated |-> <<>>, result |-> "none"]
    /\ tr = IdleReference
    /\ kf = IdleFetcher
    /\ da = IdleAnalyzer
    /\ IdleMachines

NextManifest ==
    \/ CreateOutputBase
    \/ SkipPackage
    \/ PackageGenerated
    \/ PackageFailed
    \/ ReturnReport

SpecManifest == InitManifest /\ [][NextManifest]_vars

\* ------------------------------------------------------------------------
\* amalgam-core/src/dependency_analyzer.rs: DependencyAnalyzer
\* ------------------------------------------------------------------------
MaxEntries == 1

\* index of the first occurrence of the string p in s, 0 when absent
find_str(s, p) ==
    LET hits == {i \in 1..(Len(s) - Len(p) + 1) : SubSeq(s, i, i + Len(p) - 1) = p}
    IN  IF hits = {} THEN 0 ELSE CHOOSE i \in hits : \A j \in hits : i <= j

\* str::split(p) for a string pattern p
RECURSIVE split_str(_, _)
split_str(s, p) ==
    LET i == find_str(s, p)
    IN  IF i = 0 THEN <<s>>
        ELSE <<SubSeq(s, 1, i - 1)>> \o split_str(SubSeq(s, i + Len(p), Len(s)), p)

\* the core_types list of register_k8s_core_types
core_types ==
    <<<<"ObjectMeta", "io.k8s.apimachinery.pkg.apis.meta.v1">>,
      <<"ListMeta", "io.k8s.apimachinery.pkg.apis.meta.v1">>,
      <<"LabelSelector", "io.k8s.apimachinery.pkg.apis.meta.v1">>,
      <<"Time", "io.k8s.apimachinery.pkg.apis.meta.v1">>,
      <<"MicroTime", "io.k8s.apimachinery.pkg.apis.meta.v1">>,
      <<"Status", "io.k8s.apimachinery.pkg.apis.meta.v1">>,
      <<"StatusDetails", "io.k8s.apimachinery.pkg.apis.meta.v1">>,
      <<"DeleteOptions", "io.k8s.apimachinery.pkg.apis.meta.v1">>,
      <<"OwnerReference", "io.k8s.apimachinery.pkg.apis.meta.v1">>,
      <<"ManagedFieldsEntry", "io.k8s.apimachinery.pkg.apis.meta.v1">>,
      <<"Condition", "io.k8s.apimachinery.pkg.apis.meta.v1">>,
      <<"Volume", "io.k8s.api.core.v1">>,
      <<"VolumeMount", "io.k8s.api.core.v1">>,
      <<"Container", "io.k8s.api.core.v1">>,
      <<"PodSpec", "io.k8s.api.core.v1">>,
      <<"ResourceRequirements", "io.k8s.api.core.v1">>,
      <<"Affinity", "io.k8s.api.core.v1">>,
      <<"Toleration", "io.k8s.api.core.v1">>,
      <<"LocalObjectReference", "io.k8s.api.core.v1">>,
      <<"SecretKeySelector", "io.k8s.api.core.v1">>,
      <<"ConfigMapKeySelector", "io.k8s.api.core.v1">>>>

\* DependencyAnalyzer::new
NewAnalyzer ==
    [type_registry |-> <<>>, api_group_registry |-> <<>>, current_package |-> None]

\* register_k8s_core_types: every core type and its API group belong to k8s_io
RECURSIVE register_core_from(_, _)
register_core_from(self, i) ==
    IF i > Len(core_types) THEN self
    ELSE register_core_from(
             [self EXCEPT
                 !.type_registry = Insert(@, core_types[i][1], "k8s_io"),
                 !.api_group_registry = Insert(@, core_types[i][2], "k8s_io")],
             i + 1)

register_k8s_core_types(self) == register_core_from(self, 1)

\* the API groups register_package_from_url guesses from org and repo
url_api_groups(org, repo) ==
    IF contains(org, "crossplane")
    THEN <<"apiextensions." \o org \o ".io", org \o ".io">>
    ELSE IF org = "prometheus-operator" THEN <<"monitoring.coreos.com">>
    ELSE IF org = "cert-manager" THEN <<"cert-manager.io", "acme.cert-manager.io">>
    ELSE <<replace_char(org, "-", ".") \o ".io", org \o ".com">>

RECURSIVE insert_api_groups(_, _, _)
insert_api_groups(self, api_groups, package_name) ==
    IF Len(api_groups) = 0 THEN self
    ELSE insert_api_groups(
             [self EXCEPT !.api_group_registry = Insert(@, Head(api_groups), package_name)],
             Tail(api_groups), package_name)

\* register_package_from_url
register_package_from_url(self, package_name, url) ==
    IF ~contains(url, "github.com") THEN self
    ELSE LET pieces == split_str(url, "github.com/")
         IN  IF Len(pieces) < 2 THEN self
             ELSE LET components == split(pieces[2], "/")
                  IN  IF Len(components) < 2 THEN self
                      ELSE insert_api_groups(
                               self, url_api_groups(components[1], components[2]),
                               package_name)

\* the packages of the manifests register_from_manifest reads
ManifestEntries ==
    {[name |-> "k8s-io", type |-> "k8s-core", url |-> ""],
     [name |-> "crossplane", type |-> "url",
      url |-> "https://github.com/crossplane/crossplane/tree/master/cluster/crds"],
     [name |-> "cert-manager", type |-> "url",
      url |-> "https://github.com/cert-manager/cert-manager"],
     [name |-> "argocd", type |-> "url",
      url |-> "https://raw.githubusercontent.com/argoproj/argo-cd/crds.yaml"],
     [name |-> "argo-cd", type |-> "url", url |-> "https://github.com/argo-proj/argo-cd"],
     [name |-> "local", type |-> "crds", url |-> "https://github.com/example/crds"]}
AnalyzerManifests == UNION {[1..n -> ManifestEntries] : n \in 0..MaxEntries}

\* the loop over the packages of register_from_manifest
RECURSIVE register_packages(_, _)
register_packages(self, packages) ==
    IF Len(packages) = 0 THEN self
    ELSE LET package == Head(packages)
             next == IF package.name = "k8s-io" THEN register_k8s_core_types(self)
                     ELSE IF package.type = "url"
                          THEN register_package_from_url(self, package.name, package.url)
                          ELSE self
         IN  register_packages(next, Tail(packages))

\* extract_api_group: the name without its last part, when that has a dot
extract_api_group(full_name) ==
    LET parts == split(full_name, ".")
    IN  IF Len(parts) > 1
        THEN LET api_group == join(SubSeq(parts, 1, Len(parts) - 1), ".")
             IN  IF contains(api_group, ".") THEN Some(api_group) ELSE None
        ELSE None

\* the check of the type-registry arm of parse_type_reference: a type of
\* the current package is not a reference
from_other_package(self, package) == Some(package) /= self.current_package

\* the API-group arm of parse_type_reference
api_group_arm(self, name, location) ==
    LET api_group == extract_api_group(name)
    IN  IF api_group.some /\ api_group.value \in DOMAIN self.api_group_registry
        THEN Some([full_name |-> name, simple_name |-> rsplit_next(name, "."),
                   api_group |-> api_group, source_location |-> location])
        ELSE None

\* parse_type_reference
parse_type_reference(self, name, location) ==
    LET simple_name == rsplit_next(name, ".")
    IN  IF /\ simple_name \in DOMAIN self.type_registry
           /\ from_other_package(self, self.type_registry[simple_name])
        THEN Some([full_name |-> name, simple_name |-> simple_name,
                   api_group |-> extract_api_group(name), source_location |-> location])
        ELSE api_group_arm(self, name, location)

\* the package determine_dependencies finds for a reference: the type
\* registry first, then the API-group registry; None where it skips
providing_package(self, type_ref) ==
    IF type_ref.simple_name \in DOMAIN self.type_registry
    THEN Some(self.type_registry[type_ref.simple_name])
    ELSE IF type_ref.api_group.some
         THEN IF type_ref.api_group.value \in DOMAIN self.api_group_registry
              THEN Some(self.api_group_registry[type_ref.api_group.value])
              ELSE None
         ELSE None

\* the names of the Type::Reference values given to analyze_type
ReferenceNames ==
    {"io.k8s.apimachinery.pkg.apis.meta.v1.ObjectMeta", "ObjectMeta",
     "io.k8s.api.core.v1.Volume", "io.k8s.api.apps.v1.Deployment",
     "crossplane.io.Composition", "apiextensions.crossplane.io.v1.Composition",
     "acme.cert-manager.io.Challenge", "example.io.v1.ObjectMeta", "Widget"}
CurrentPackages == {"k8s_io", "crossplane", "cert-manager", "argo-cd", "example"}

\* register_from_manifest on a manifest that is read and parsed
RegisterFromManifest ==
    /\ da.op /= "idle"
    /\ \E packages \in AnalyzerManifests :
           da' = [da EXCEPT !.op = "registered",
                            !.self = register_packages(da.self, packages)]
    /\ UNCHANGED <<cvars, wvars, pvars, tr, kf, mf>>

\* set_current_package
SetCurrentPackage ==
    /\ da.op /= "idle"
    /\ \E package \in CurrentPackages :
           da' = [da EXCEPT !.op = "set", !.self.current_package = Some(package)]
    /\ UNCHANGED <<cvars, wvars, pvars, tr, kf, mf>>

\* analyze_type on a Type::Reference: collect_type_references asks
\* parse_type_reference for the name
AnalyzeType ==
    /\ da.op /= "idle"
    /\ \E name \in ReferenceNames :
           da' = [da EXCEPT !.op = "analyzed", !.name = name,
                            !.result = parse_type_reference(da.self, name, "spec")]
    /\ UNCHANGED <<cvars, wvars, pvars, tr, kf, mf>>

InitAnalyzer ==
    /\ da = [op |-> "new", self |-> NewAnalyzer, name |-> "", result |-> None]
    /\ tr = IdleReference
    /\ kf = IdleFetcher
    /\ mf = IdleManifest
    /\ IdleMachines

NextAnalyzer ==
    \/ RegisterFromManifest
    \/ SetCurrentPackage
    \/ AnalyzeType

SpecAnalyzer == InitAnalyzer /\ [][NextAnalyzer]_vars

\* ------------------------------------------------------------------------
\* amalgam-parser/src/k8s_types.rs: K8sTypesFetcher::extract_core_types and
\* amalgam-cli/src/lib.rs: handle_k8s_core_import
\* ------------------------------------------------------------------------
MaxDefinitions == 5

\* a schema with its "description" key
Described(node, description) == [description |-> description] @@ node

Pointer(name) == "#/definitions/" \o name

\* the definitions an OpenAPI document can hold: name -> schema
DefinitionUniverse ==
    ("io.k8s.api.core.v1.Pod" :>
        Described(SObject(<< <<"spec", SRef(Pointer("io.k8s.api.core.v1.PodSpec"))>>,
                             <<"status", SRef(Pointer("io.k8s.api.core.v1.Status"))>> >>,
                          {}, "absent"), "a pod"))
    @@ ("io.k8s.api.core.v1.PodSpec" :>
        Described(SObject(<< <<"conditions",
                               SArray(Some(SRef(Pointer("io.k8s.api.core.v1.Status"))))>>,
                             <<"extension", SRef(Pointer("io.k8s.Extension"))>>,
                             <<"owner", SRef(Pointer("io.k8s.api.core.v1.Pod"))>> >>,
                          {}, "absent"), "the spec of a pod"))
    @@ ("io.k8s.api.core.v1.Status" :>
        Described(SObject(<< <<"phase", SchemaNode("string")>> >>, {}, "absent"),
                  "the status of a pod"))
    @@ ("io.k8s.apimachinery.pkg.apis.meta.v1.Status" :>
        Described(SObject(<< <<"code", SchemaNode("integer")>> >>, {}, "absent"),
                  "the status of a call"))
    @@ ("io.k8s.Extension" :>
        Described(SObject(<< <<"volume", SRef(Pointer("io.k8s.api.core.v1.Volume"))>> >>,
                          {}, "absent"), "an extension"))
    @@ ("io.k8s.api.core.v1.Volume" :>
        Described(SObject(<< <<"name", SchemaNode("string")>> >>, {}, "absent"),
                  "a volume"))
    @@ ("io.k8s.api.core.v1.Event" :>
        Described(SObject(<< <<"series", SRef(Pointer("io.k8s.api.events.v1.Event"))>> >>,
                          {}, "absent"), "a core event"))
    @@ ("io.k8s.api.events.v1.Event" :>
        Described(SObject(<< <<"note", SchemaNode("string")>> >>, {}, "absent"),
                  "an event"))

DefinitionMaps ==
    {[name \in names |-> DefinitionUniverse[name]] :
        names \in {S \in SUBSET DOMAIN DefinitionUniverse : Cardinality(S) <= MaxDefinitions}}

\* openapi.get("definitions").and_then(|d| d.as_object())
Documents == {None} \cup {Some(definitions) : definitions \in DefinitionMaps}

\* the seed_types among the names above, in the order of the list; the
\* list names io.k8s.api.storage.v1alpha1.VolumeAttributesClass twice
seed_types ==
    <<"io.k8s.apimachinery.pkg.apis.meta.v1.Status",
      "io.k8s.api.core.v1.Pod",
      "io.k8s.api.core.v1.Event",
      "io.k8s.api.storage.v1alpha1.VolumeAttributesClass",
      "io.k8s.api.storage.v1alpha1.VolumeAttributesClass">>

\* collect_schema_references: the targets of every "$ref" under schema
\* that starts with #/definitions/
RECURSIVE collect_schema_references(_)
RECURSIVE collect_in_properties(_)
RECURSIVE collect_in_members(_)
collect_in_properties(properties) ==
    IF Len(properties) = 0 THEN {}
    ELSE collect_schema_references(properties[1][2])
         \cup collect_in_properties(Tail(properties))

collect_in_members(members) ==
    IF Len(members) = 0 THEN {}
    ELSE collect_schema_references(members[1]) \cup collect_in_members(Tail(members))

collect_schema_references(schema) ==
    (IF schema.kind = "ref" /\ starts_with(schema.ref, "#/definitions/")
     THEN {SubSeq(schema.ref, Len("#/definitions/") + 1, Len(schema.ref))}
     ELSE {})
    \cup (IF schema.items.some THEN collect_schema_references(schema.items.value) ELSE {})
    \cup collect_in_properties(schema.properties)
    \cup collect_in_members(schema.members)

\* K8sTypesFetcher::parse_type_reference: the (group, version, kind) key
k8s_parse_type_reference(full_name) ==
    LET parts == split(full_name, ".")
    IN  IF Len(parts) < 4 \/ parts[1] /= "io" \/ parts[2] /= "k8s"
        THEN Err("Invalid k8s type name")
        ELSE LET group == IF parts[4] = "core" \/ parts[3] = "apimachinery"
                          THEN "k8s.io" ELSE parts[4] \o ".k8s.io"
                 is_unversioned == "runtime" \in Range(parts) \/ "util" \in Range(parts)
             IN  IF is_unversioned
                 THEN Ok(TypeReferenceNew(group, "v0", parts[Len(parts)]))
                 ELSE IF Len(parts) < 5
                      THEN Err("Invalid versioned k8s type name")
                      ELSE Ok(TypeReferenceNew(group, parts[Len(parts) - 1],
                                               parts[Len(parts)]))

\* K8sTypesFetcher::schema_to_type_definition
schema_to_type_definition(name, schema) ==
    TypeDefinition(name, k8s_json_schema_to_type(schema), Some(schema.description))

\* the referenced names extract_core_types queues for a converted schema
queued_references(schema, processed, definitions) ==
    {ref_name \in collect_schema_references(schema) :
        ref_name \notin processed /\ ref_name \in DOMAIN definitions}

\* the loop of extract_core_types takes a name that is already processed
PopProcessed ==
    /\ kf.op = "extracting"
    /\ kf.document.some
    /\ Len(kf.to_process) > 0
    /\ Head(kf.to_process) \in kf.processed
    /\ kf' = [kf EXCEPT !.to_process = Tail(@)]
    /\ UNCHANGED <<cvars, wvars, pvars, tr, mf, da>>

\* ... a name the definitions do not hold
PopAbsent ==
    /\ kf.op = "extracting"
    /\ kf.document.some
    /\ Len(kf.to_process) > 0
    /\ Head(kf.to_process) \notin kf.processed
    /\ Head(kf.to_process) \notin DOMAIN kf.document.value
    /\ kf' = [kf EXCEPT !.to_process = Tail(@),
                        !.processed = @ \cup {Head(kf.to_process)}]
    /\ UNCHANGED <<cvars, wvars, pvars, tr, mf, da>>

\* ... a definition whose name parse_type_reference rejects
PopUnparsed ==
    /\ kf.op = "extracting"
    /\ kf.document.some
    /\ Len(kf.to_process) > 0
    /\ Head(kf.to_process) \notin kf.processed
    /\ Head(kf.to_process) \in DOMAIN kf.document.value
    /\ ~k8s_parse_type_reference(Head(kf.to_process)).ok
    /\ kf' = [kf EXCEPT !.to_process = Tail(@),
                        !.processed = @ \cup {Head(kf.to_process)}]
    /\ UNCHANGED <<cvars, wvars, pvars, tr, mf, da>>

\* ... a definition it converts: the references are queued in the order
\* the HashSet gives them and the type is inserted under its key
ConvertDefinition ==
    /\ kf.op = "extracting"
    /\ kf.document.some
    /\ Len(kf.to_process) > 0
    /\ Head(kf.to_process) \notin kf.processed
    /\ Head(kf.to_process) \in DOMAIN kf.document.value
    /\ k8s_parse_type_reference(Head(kf.to_process)).ok
    /\ \E refs \in hash_order(queued_references(
                       kf.document.value[Head(kf.to_process)],
                       kf.processed \cup {Head(kf.to_process)}, kf.document.value)) :
           kf' = [kf EXCEPT
                     !.to_process = Tail(@) \o refs,
                     !.processed = @ \cup {Head(kf.to_process)},
                     !.converted = Append(@, Head(kf.to_process)),
                     !.types = Insert(@, k8s_parse_type_reference(Head(kf.to_process)).value,
                                      schema_to_type_definition(
                                          rsplit_next(Head(kf.to_process), "."),
                                          kf.document.value[Head(kf.to_process)]))]
    /\ UNCHANGED <<cvars, wvars, pvars, tr, mf, da>>

\* Ok(types): the queue is empty, or the document has no definitions
ReturnTypes ==
    /\ kf.op = "extracting"
    /\ ~kf.document.some \/ Len(kf.to_process) = 0
    /\ kf' = [kf EXCEPT !.op = "returned"]
    /\ UNCHANGED <<cvars, wvars, pvars, tr, mf, da>>

\* handle_k8s_core_import: the file a type is written to, under output_dir
file_path(type_ref) == type_ref.version \o "/" \o to_lowercase(type_ref.kind) \o ".ncl"

\* the module handle_k8s_core_import generates the file of a type from
file_module(type_ref, type_def) ==
    [name |-> "k8s.io." \o type_ref.version \o "." \o to_lowercase(type_ref.kind),
     type_name |-> type_def.name, documentation |-> type_def.documentation]

\* the line of <version>/mod.ncl for a type
mod_import(type_ref) ==
    "  " \o type_ref.kind \o " = (import \"./" \o to_lowercase(type_ref.kind)
    \o ".ncl\")." \o type_ref.kind \o ","

\* handle_k8s_core_import after extract_core_types: one file per type in
\* the directory of its version, written in the order the HashMap gives
\* the types (a later fs::write replaces an earlier one), one mod.ncl per
\* version; create_dir_all, generate and write can fail
WritePackage ==
    /\ kf.op = "returned"
    /\ \/ \E files \in [{file_path(type_ref) : type_ref \in DOMAIN kf.types} ->
                            {file_module(type_ref, kf.types[type_ref]) :
                                type_ref \in DOMAIN kf.types}] :
             /\ \A path \in DOMAIN files :
                    \E type_ref \in DOMAIN kf.types :
                        /\ file_path(type_ref) = path
                        /\ files[path] = file_module(type_ref, kf.types[type_ref])
             /\ kf' = [kf EXCEPT
                         !.op = "written",
                         !.files = files,
                         !.mods = [version \in {type_ref.version : type_ref \in DOMAIN kf.types}
                                      |-> {mod_import(type_ref) :
                                              type_ref \in {t \in DOMAIN kf.types :
                                                               t.version = version}}]]
       \/ kf' = [kf EXCEPT !.op = "failed"]
    /\ UNCHANGED <<cvars, wvars, pvars, tr, mf, da>>

InitFetcher ==
    /\ \E document \in Documents :
           kf = [op |-> "extracting", document |-> document, to_process |-> seed_types,
                 processed |-> {}, converted |-> <<>>, types |-> EmptyMap,
                 files |-> EmptyMap, mods |-> EmptyMap]
    /\ tr = IdleReference
    /\ mf = IdleManifest
    /\ da = IdleAnalyzer
    /\ IdleMachines

NextFetcher ==
    \/ PopProcessed
    \/ PopAbsent
    \/ PopUnparsed
    \/ ConvertDefinition
    \/ ReturnTypes
    \/ WritePackage

SpecFetcher == InitFetcher /\ [][NextFetcher]_vars

\* ------------------------------------------------------------------------
\* Properties of is_compatible (SpecCompat)
\* ------------------------------------------------------------------------
StrictPrimitives == Primitives \ {TypeAny}
Unregistered(ty) == ty.kind = "Reference" /\ ty.name \notin DOMAIN ts_types

\* C8: on the primitives other than Any, is_compatible(S, T) holds exactly
\* when S = T or S is Integer and T is Number; Number is not compatible
\* with Integer.
C8_PrimitiveCompatibility ==
    (compat.called /\ compat.source \in StrictPrimitives
                   /\ compat.target \in StrictPrimitives)
    => ((compat.result = "true")
        <=> (compat.source = compat.target
             \/ (compat.source = TypeInteger /\ compat.target = TypeNumber)))

C8_Witness ==
    /\ compat.called
    /\ compat.source = TypeNumber
    /\ compat.target = TypeInteger
    /\ compat.result = "false"

\* C9 as claimed: a Union source is compatible with T exactly when every
\* variant is compatible with T, and S is compatible with a Union target
\* exactly when some variant is compatible with S, for every S and T.
C9_UnionAllAny ==
    compat.called =>
      /\ compat.source.kind = "Union" =>
           ((compat.result = "true")
            <=> \A i \in 1..Len(compat.source.types) :
                   is_compatible(ts_types, compat.source.types[i], compat.target, MaxDepth) = "true")
      /\ compat.target.kind = "Union" =>
           ((compat.result = "true")
            <=> \E i \in 1..Len(compat.target.types) :
                   is_compatible(ts_types, compat.source, compat.target.types[i], MaxDepth) = "true")

RECURSIVE AnyUnderOptional(_)
AnyUnderOptional(ty) ==
    \/ ty.kind = "Any"
    \/ ty.kind = "Optional" /\ AnyUnderOptional(ty.elem)

\* C10 as claimed: is_compatible returns false whenever the source or the
\* target is a Reference missing from the side table, whatever the other
\* type is.
C10_FailClosedAlways ==
    (compat.called /\ (Unregistered(compat.source) \/ Unregistered(compat.target)))
    => compat.result = "false"

\* C10 amended: is_compatible returns false when the source is an
\* unregistered Reference and the target is not Any (bare or under
\* Optional), and when the target is an unregistered Reference and the
\* source is neither Any nor a Reference.
C10_FailClosedExceptAny ==
    compat.called =>
      /\ (Unregistered(compat.source) /\ ~AnyUnderOptional(compat.target))
           => compat.result = "false"
      /\ (Unregistered(compat.target) /\ compat.source.kind \notin {"Any", "Reference"})
           => compat.result = "false"

C10_Witness ==
    /\ compat.called
    /\ Unregistered(compat.source)
    /\ compat.target.kind = "Union"
    /\ compat.result = "false"

\* ------------------------------------------------------------------------
\* Properties of the import pipeline (SpecWalk)
\* ------------------------------------------------------------------------
\* the alias of a rendered reference "alias.Type"; None for a bare "Type"
alias_of(ref) ==
    LET i == find(ref, ".") IN IF i = 0 THEN None ELSE Some(SubSeq(ref, 1, i - 1))

\* the import statements rendered for a module, in output order
statements(m) == m.discovered \o m.original

Rendered == pc = "done" /\ out.status = "ok"
Built == pc \in {"ir", "done"} /\ ir.status = "ok"

\* C1: in every rendered module, each qualified reference alias.Type of the
\* body has exactly one import statement defining the alias, and each import
\* statement's alias qualifies at least one reference of the body.
C1_ImportCompleteness ==
    Rendered =>
        \A i \in 1..Len(out.modules) :
            LET m == out.modules[i]
                stmts == statements(m)
                used == {alias_of(m.refs[k]).value :
                            k \in {j \in 1..Len(m.refs) : alias_of(m.refs[j]).some}}
            IN  /\ \A a \in used :
                       Cardinality({j \in 1..Len(stmts) : stmts[j].alias = a}) = 1
                /\ \A j \in 1..Len(stmts) : stmts[j].alias \in used

\* C2: no two Imports of a module built by generate_ir have the same path.
C2_OneImportPerPath ==
    Built =>
        \A i \in 1..Len(ir.modules) :
            \A j, k \in 1..Len(ir.modules[i].imports) :
                ir.modules[i].imports[j].path = ir.modules[i].imports[k].path => j = k

\* several dependencies living in the same target file were coalesced
C2_Witness ==
    /\ Built
    /\ \E i \in 1..Len(ir.modules) :
           \E j \in 1..Len(ir.modules[i].imports) :
               Len(ir.modules[i].imports[j].items) >= 2

\* C3: no two Imports of a module built by generate_ir have the same alias.
C3_UniqueAliases ==
    Built =>
        \A i \in 1..Len(ir.modules) :
            \A j, k \in 1..Len(ir.modules[i].imports) :
                ir.modules[i].imports[j].alias = ir.modules[i].imports[k].alias => j = k

\* C4: every run of generate_ir on the registry and graph of this run
\* returns what this run returned: the same modules in the same order, with
\* the same order of Imports and items.
C4_Deterministic ==
    pc = "ir" => \A again \in generate_ir(walker, registry, deps, pkg_version) : again = ir

\* a module of version v1alpha1 whose types reference ObjectMeta of the
\* platform metadata namespace and nothing else
ObjectMetaRef == [name |-> "ObjectMeta", module |-> Some(K8sMeta)]
module_references(m) == UNION {collect_references(m.types[t].ty) : t \in 1..Len(m.types)}
ReferencesObjectMetaOnly(m) ==
    /\ contains(m.name, ".v1alpha1")
    /\ module_references(m) = {ObjectMetaRef}

\* C5: such a module has exactly one Import, its path ends in
\* v1/objectmeta.ncl, its rendered body refers to <alias>.ObjectMeta, and the
\* rendered text nowhere holds the namespace io.k8s.apimachinery.pkg.apis.meta.v1.
C5_CrossVersionObjectMeta ==
    Rendered =>
        \A i \in 1..Len(ir.modules) :
            ReferencesObjectMetaOnly(ir.modules[i]) =>
                LET m == ir.modules[i]
                IN  /\ Len(m.imports) = 1
                    /\ ends_with(m.imports[1].path, "v1/objectmeta.ncl")
                    /\ \E k \in 1..Len(out.modules[i].refs) :
                           out.modules[i].refs[k] = m.imports[1].alias.value \o ".ObjectMeta"
                    /\ ~contains(out.modules[i].text, K8sMeta)

\* the module a walker's module belongs to in the dependency graph: the
\* adapter makes one Module per type, named by the type's fqn
owner(m) == IF walker = "package" THEN extract_module(m.name) ELSE m.name

\* the References of m's own types that leave m's module
leaving(m) == {r \in module_references(m) : r.module.some /\ r.module.value # owner(m)}

\* C6: every Import item of a module names a type that a type of the module
\* references directly and whose module is another one; a module with no
\* Reference leaving it has no Import.
C6_DirectImportsOnly ==
    Built =>
        \A i \in 1..Len(ir.modules) :
            LET m == ir.modules[i]
            IN  /\ \A j \in 1..Len(m.imports) :
                       \A k \in 1..Len(m.imports[j].items) :
                           \E r \in leaving(m) :
                               to_lowercase(r.name) = to_lowercase(m.imports[j].items[k])
                /\ leaving(m) = {} => m.imports = <<>>

\* a module imports for its direct references while one of the types it
\* depends on has a dependency of its own, and another module is local-only
C6_Witness ==
    /\ Built
    /\ \E i, j \in 1..Len(ir.modules) :
           /\ ir.modules[i].imports # <<>>
           /\ \E r \in module_references(ir.modules[j]) :
                  r \notin module_references(ir.modules[i])
    /\ \E fqn \in DOMAIN deps.dependencies :
           \E d \in deps.dependencies[fqn] :
               d \in DOMAIN deps.dependencies /\ deps.dependencies[d] \ {fqn, d} # {}

\* the types that depend on themselves, directly or through other types
RECURSIVE reach(_, _, _)
reach(graph, frontier, seen) ==
    LET next == UNION {Get(graph.dependencies, f, {}) : f \in frontier}
    IN  IF next \subseteq seen THEN seen ELSE reach(graph, next \ seen, seen \cup next)
SelfReferencing == {fqn \in DOMAIN registry.types : fqn \in reach(deps, {fqn}, {})}

\* the module of the IR that holds the type fqn
holds(m, fqn) ==
    IF walker = "package" THEN m.name = fqn
    ELSE m.name = extract_module(fqn)

\* C7: with a self-referencing type in the registry, build_dependencies and
\* generate_ir return, and the module that holds the type has no Import of
\* that type.
C7_RecursiveTypes ==
    (pc # "extract" /\ SelfReferencing # {}) =>
        /\ pc = "deps" => generate_ir(walker, registry, deps, pkg_version) # {}
        /\ Built =>
               \A fqn \in SelfReferencing :
                   \A i \in 1..Len(ir.modules) :
                       holds(ir.modules[i], fqn) =>
                           \A j \in 1..Len(ir.modules[i].imports) :
                               \A k \in 1..Len(ir.modules[i].imports[j].items) :
                                   to_lowercase(ir.modules[i].imports[j].items[k])
                                       # to_lowercase(rsplit_next(fqn, "."))

\* a type referencing itself and a type in a cycle through another type
\* went through generate_ir, and the holder got Imports
C7_Witness ==
    /\ Built
    /\ Cardinality(SelfReferencing) >= 2
    /\ \E fqn \in SelfReferencing : fqn \in deps.dependencies[fqn]
    /\ \E fqn \in SelfReferencing : fqn \notin deps.dependencies[fqn]
    /\ \E i \in 1..Len(ir.modules) : ir.modules[i].imports # <<>>

\* ------------------------------------------------------------------------
\* Properties of TypeResolver::resolve (SpecResolve)
\* ------------------------------------------------------------------------
\* the reference after short-name expansion, and the Type of `alias.Type`
expanded(reference) == Get(type_registry, reference, reference)
type_name_of(reference) == rsplit_next(rsplit_next(reference, "/"), ".")

\* the namespace inferred from an Import's path ("" when there is none)
namespace_of(import) ==
    LET info == parse_import_path(import.path)
    IN  IF info.some THEN info.value.namespace ELSE ""

\* the qualifier an Import gives: its alias, the file's name without one
qualifier(import) ==
    IF import.alias.some THEN import.alias.value
    ELSE parse_import_path(import.path).value.module_name

\* the dot-segments of a namespace, and the segments of a reference
\* (separated by dots and slashes)
namespace_segments(import) ==
    IF namespace_of(import) = "" THEN {} ELSE Range(split(namespace_of(import), "."))
reference_segments(full) == UNION {Range(split(p, ".")) : p \in Range(split(full, "/"))}

\* the Imports of the module, by position, that match the reference:
\* a namespace segment equal to a segment of the reference ...
sharing(module, full) ==
    {i \in 1..Len(module.imports) :
        namespace_segments(module.imports[i]) \cap reference_segments(full) # {}}
\* ... or a namespace segment occurring anywhere in the reference's text
occurring(module, full) ==
    {i \in 1..Len(module.imports) :
        \E part \in namespace_segments(module.imports[i]) : contains(full, part)}

\* the precedence: cache, first matching Import, the reference itself (as
\* the name of a local type or unchanged)
precedence(cache, reference, module, matching) ==
    IF reference \in DOMAIN cache THEN cache[reference]
    ELSE IF matching # {}
         THEN qualifier(module.imports[CHOOSE i \in matching : \A j \in matching : i <= j])
              \o "." \o type_name_of(expanded(reference))
    ELSE reference

\* C11 as claimed: resolve returns the cached name, else alias.Type for the
\* first Import whose namespace has a dot-segment in common with the
\* segments of the expanded reference, else the reference itself.
C11_PrecedenceBySharedSegment ==
    rs.calls > 0 =>
        rs.last.result =
            precedence(rs.last.before, rs.last.reference, RModules[rs.last.module],
                       sharing(RModules[rs.last.module], expanded(rs.last.reference)))

\* what resolve does: the same precedence with the first Import one of
\* whose namespace dot-segments occurs anywhere in the expanded reference
ResolveMatchesBySubstring ==
    rs.calls > 0 =>
        rs.last.result =
            precedence(rs.last.before, rs.last.reference, RModules[rs.last.module],
                       occurring(RModules[rs.last.module], expanded(rs.last.reference)))

\* C12: the name a resolver returns for (reference, module) is the name a
\* fresh resolver returns for them, whatever it resolved before.
C12_DependsOnArgumentsOnly ==
    rs.calls > 0 =>
        rs.last.result =
            resolver_resolve(EmptyMap, rs.last.reference, RModules[rs.last.module]).name

\* ------------------------------------------------------------------------
\* Properties of the emitter (SpecEmit)
\* ------------------------------------------------------------------------
\* the field field_to_nickel was called for
emitted_name == em.record.fields[em.at][1]
emitted_field == em.record.fields[em.at][2]

\* the text of a type on its own, as the emitter renders it
type_text(ty, indent_level) == type_to_nickel(ty, EModule, indent_level, NewCodegen).s

\* C13: the text of a field is its name, then `optional`, then the type,
\* then the documentation, then the default, separated by " | "; `optional`
\* is there exactly when the field has no default, whatever `required` says.
C13_FieldPartsInOrder ==
    em.op = "field" =>
        LET f == emitted_field
            lead == indent(1) \o escape_field_name(emitted_name)
            rest == SubSeq(em.result, Len(lead) + 1, Len(em.result))
        IN  /\ starts_with(em.result, lead)
            /\ starts_with(rest, " | optional | ") <=> ~f.default.some
            /\ rest = (IF f.default.some THEN "" ELSE " | optional")
                      \o " | " \o type_text(f.ty, 1)
                      \o (IF f.description.some
                          THEN " | doc " \o format_doc(f.description.value) ELSE "")
                      \o (IF f.default.some
                          THEN " | default = " \o format_json_value_impl(f.default.value, 1)
                          ELSE "")

\* a required field with documentation and a default was rendered
C13_Witness ==
    /\ em.op = "field"
    /\ emitted_field.required
    /\ emitted_field.default.some
    /\ emitted_field.description.some
    /\ ~contains(em.result, "optional")

\* the number of places where p occurs in str
occurrences(str, p) ==
    Cardinality({i \in 1..(Len(str) - Len(p) + 1) : SubSeq(str, i, i + Len(p) - 1) = p})

\* the text of the fields of a record in the order given, each with ",\n"
RECURSIVE field_lines(_, _)
field_lines(fields, i) ==
    IF i > Len(fields) THEN ""
    ELSE field_to_nickel(fields[i][1], fields[i][2], EModule, 1, NewCodegen).s
         \o ",\n" \o field_lines(fields, i + 1)

\* C14: an open record without fields is `{ .. }`; an open record with
\* fields is its fields in name order and then one catch-all line; a closed
\* record has its fields and no catch-all marker of its own.
C14_OpenRecordMarker ==
    em.op = "type" =>
        LET r == em.record
            own == occurrences(em.result, "..") - occurrences(field_lines(r.fields, 1), "..")
        IN  /\ (r.open /\ Len(r.fields) = 0) => em.result = "{ .. }"
            /\ (r.open /\ Len(r.fields) > 0) =>
                   /\ em.result = "{\n" \o field_lines(r.fields, 1) \o "  .. | Dyn,\n}"
                   /\ own = 1
            /\ ~r.open =>
                   /\ em.result = "{\n" \o field_lines(r.fields, 1) \o "}"
                   /\ own = 0
            /\ \A i \in 1..(Len(r.fields) - 1) : str_lt(r.fields[i][1], r.fields[i + 1][1])

\* an open record with two fields, the first an open record itself, was
\* rendered with its own catch-all line and the nested one
C14_Witness ==
    /\ em.op = "type"
    /\ em.record.open
    /\ Len(em.record.fields) = 2
    /\ em.record.fields[1][2].ty.kind = "Record"
    /\ occurrences(em.result, "..") = 2

Letters == {CharAt(UpperChars, i) : i \in 1..26} \cup {CharAt(LowerChars, i) : i \in 1..26}
Digits == {CharAt("0123456789", i) : i \in 1..10}

\* a name that must be quoted: a reserved word, or a name whose first
\* character is neither a letter, a digit nor an underscore
must_quote(name) ==
    \/ is_reserved_keyword(name)
    \/ Len(name) > 0 /\ CharAt(name, 1) \notin Letters \cup Digits \cup {"_"}

\* the keys of all objects within a JSON value
RECURSIVE json_keys(_)
json_keys(value) ==
    CASE value.json = "Object" ->
            {e[1] : e \in Range(value.value)}
            \cup UNION {json_keys(e[2]) : e \in Range(value.value)}
      [] value.json = "Array" -> UNION {json_keys(v) : v \in Range(value.value)}
      [] OTHER -> {}

\* C15: a field whose name must be quoted is rendered with the name in
\* double quotes, and so is every such key of its default value, at every
\* depth.
C15_QuotedNames ==
    em.op = "field" =>
        /\ must_quote(emitted_name) =>
               starts_with(em.result, indent(1) \o "\"" \o emitted_name \o "\" | ")
        /\ emitted_field.default.some =>
               \A k \in json_keys(emitted_field.default.value) :
                   must_quote(k) =>
                       /\ contains(em.result, " \"" \o k \o "\" = ")
                       /\ ~contains(em.result, " " \o k \o " = ")

\* ------------------------------------------------------------------------
\* Properties of build_dependencies in each walker (SpecWalk)
\* ------------------------------------------------------------------------
recognized_prefix(fqn) == starts_with(fqn, "io.k8s.")

\* C18: once build_dependencies has run, for every registered type and every
\* Reference in it, the graph holds the edge type-fqn -> referenced-fqn
\* exactly when the referenced fqn is a key of the registry or starts with
\* "io.k8s.", whichever walker built the graph.
C18_EdgeExactlyWhenKnown ==
    pc # "extract" =>
        \A fqn \in DOMAIN registry.types :
            \A r \in collect_references(registry.types[fqn].ty) :
                LET d == referenced_fqn(walker, fqn, r)
                IN  (d \in Get(deps.dependencies, fqn, {}))
                    <=> (d \in DOMAIN registry.types \/ recognized_prefix(d))

\* ------------------------------------------------------------------------
\* Properties of the extractors (SpecExtract)
\* ------------------------------------------------------------------------
\* the registry key under which a walker files unit i
unit_fqn(op, i) ==
    IF op = "CRDWalker::extract_types" THEN Group \o "." \o VersionNames[i] \o ".Spec"
    ELSE BaseModule \o "." \o SchemaNames[i]

\* the units of the document for which the handler has left a type, and
\* that type
extracted_units ==
    CASE ex.op \in {"CRDWalker::extract_types", "OpenAPIWalker::extract_types"} ->
            {i \in DOMAIN ex.doc : unit_fqn(ex.op, i) \in DOMAIN ex.registry.types}
      [] ex.op \in {"K8sTypesFetcher::schema_to_type_definition", "OpenAPIParser::parse"} ->
            {i \in DOMAIN ex.doc :
                \E k \in DOMAIN ex.converted : ex.converted[k][1] = SchemaNames[i]}
      [] OTHER -> {}
extracted_type(i) ==
    IF ex.op \in {"CRDWalker::extract_types", "OpenAPIWalker::extract_types"}
    THEN ex.registry.types[unit_fqn(ex.op, i)].ty
    ELSE LET k == CHOOSE k \in DOMAIN ex.converted : ex.converted[k][1] = SchemaNames[i]
         IN  ex.converted[k][2]

truthy(additional) == additional \in {"true", "schema"}

\* every object node with truthy additionalProperties has become an open
\* Record, at every depth
RECURSIVE opens_agree(_, _)
opens_agree(schema, ty) ==
    CASE schema.kind = "object" ->
            /\ ty.kind = "Record"
            /\ truthy(schema.additional) => ty.open
            /\ \A i \in DOMAIN schema.properties :
                   \A j \in DOMAIN ty.fields :
                       ty.fields[j][1] = schema.properties[i][1]
                           => opens_agree(schema.properties[i][2], ty.fields[j][2].ty)
      [] schema.kind = "array" /\ schema.items.some /\ ty.kind = "Array" ->
            opens_agree(schema.items.value, ty.elem)
      [] OTHER -> TRUE

\* C16: in the CRD walker, the OpenAPI walker and the k8s OpenAPI extractor,
\* an object schema whose additionalProperties is true or a schema object
\* is extracted as a Record with open = TRUE.
C16_TruthyAdditionalPropertiesOpen ==
    ex.op \in {"CRDWalker::extract_types", "OpenAPIWalker::extract_types",
               "K8sTypesFetcher::schema_to_type_definition"}
        => \A i \in extracted_units : opens_agree(ex.doc[i].value, extracted_type(i))

\* what the three extractors do agree on: the boolean true opens the Record
RECURSIVE opens_on_true(_, _)
opens_on_true(schema, ty) ==
    CASE schema.kind = "object" ->
            /\ ty.kind = "Record"
            /\ schema.additional = "true" => ty.open
            /\ \A i \in DOMAIN schema.properties :
                   \A j \in DOMAIN ty.fields :
                       ty.fields[j][1] = schema.properties[i][1]
                           => opens_on_true(schema.properties[i][2], ty.fields[j][2].ty)
      [] schema.kind = "array" /\ schema.items.some /\ ty.kind = "Array" ->
            opens_on_true(schema.items.value, ty.elem)
      [] OTHER -> TRUE

ExtractorsOpenOnTrue ==
    ex.op \in {"CRDWalker::extract_types", "OpenAPIWalker::extract_types",
               "K8sTypesFetcher::schema_to_type_definition"}
        => \A i \in extracted_units : opens_on_true(ex.doc[i].value, extracted_type(i))

\* a $ref pointer occurs in the schema
RECURSIVE has_pointer(_)
has_pointer(schema) ==
    \/ schema.kind = "ref"
    \/ schema.items.some /\ has_pointer(schema.items.value)
    \/ \E i \in DOMAIN schema.properties : has_pointer(schema.properties[i][2])
    \/ \E k \in DOMAIN schema.members : has_pointer(schema.members[k])

\* every pointer of the schema stands in ty, at the place of the pointer,
\* as a Reference {name, module} named by the pointer's last segment
RECURSIVE pointers_kept(_, _)
pointers_kept(schema, ty) ==
    CASE schema.kind = "ref" ->
            /\ ty.kind = "Reference"
            /\ ty.name = rsplit_next(schema.ref, "/")
            /\ ty.module.some
      [] ~has_pointer(schema) -> TRUE
      [] schema.kind = "object" ->
            /\ ty.kind = "Record"
            /\ \A i \in DOMAIN schema.properties :
                   \E j \in DOMAIN ty.fields :
                       /\ ty.fields[j][1] = schema.properties[i][1]
                       /\ pointers_kept(schema.properties[i][2], ty.fields[j][2].ty)
      [] schema.kind = "array" ->
            ty.kind = "Array" /\ pointers_kept(schema.items.value, ty.elem)
      [] schema.kind \in {"oneOf", "anyOf"} ->
            /\ ty.kind = "Union"
            /\ Len(ty.types) = Len(schema.members)
            /\ \A k \in DOMAIN schema.members : pointers_kept(schema.members[k], ty.types[k])
      [] OTHER -> FALSE

\* C17: after a walker's extract_types, every unit of the document in which
\* a $ref pointer occurs (as the named schema itself, a property, the items
\* of an array or a oneOf/anyOf member) has a registered type, and that type
\* holds a Reference {name, module} at the place of each pointer, where
\* build_dependencies finds it.
C17_PointersBecomeReferences ==
    ex.op \in {"CRDWalker::extract_types", "OpenAPIWalker::extract_types"}
        => \A i \in DOMAIN ex.doc :
               (ex.doc[i].some /\ has_pointer(ex.doc[i].value))
                   => /\ i \in extracted_units
                      /\ pointers_kept(ex.doc[i].value, extracted_type(i))

\* the CRD walker alone does keep every pointer
CRDWalkerKeepsPointers ==
    ex.op = "CRDWalker::extract_types"
        => \A i \in DOMAIN ex.doc :
               (ex.doc[i].some /\ has_pointer(ex.doc[i].value))
                   => /\ i \in extracted_units
                      /\ pointers_kept(ex.doc[i].value, extracted_type(i))

\* version i of the CRD has a type (walker) or a module (parser) in the result
version_extracted(i) ==
    IF ex.op = "CRDWalker::extract_types"
    THEN unit_fqn(ex.op, i) \in DOMAIN ex.registry.types
    ELSE \E k \in DOMAIN ex.modules :
            ex.modules[k].name = Kind \o "." \o VersionNames[i] \o "." \o Group

\* C19: after CRDWalker::extract_types or CRDParser::parse on a CRD, every
\* version without a schema is reported by a typed error naming it and
\* every version with a schema is extracted; parse_version asked for a
\* version without a schema returns a typed error.
C19_MissingSchemaReported ==
    /\ ex.op \in {"CRDWalker::extract_types", "CRDParser::parse"}
           => \A i \in DOMAIN ex.doc :
                  IF ex.doc[i].some THEN version_extracted(i)
                  ELSE VersionNames[i] \in ex.reported
    /\ (ex.op = "CRDParser::parse_version" /\ ex.asked \in DOMAIN ex.doc
            /\ ~ex.doc[ex.asked].some)
           => ex.status = "err" /\ VersionNames[ex.asked] \in ex.reported

\* parse_version does report the version it was asked for, and the other
\* two handlers do extract every version that has a schema
ParseVersionReportsMissingSchema ==
    /\ (ex.op = "CRDParser::parse_version" /\ ex.asked \in DOMAIN ex.doc
            /\ ~ex.doc[ex.asked].some)
           => ex.status = "err" /\ VersionNames[ex.asked] \in ex.reported
    /\ ex.op \in {"CRDWalker::extract_types", "CRDParser::parse"}
           => \A i \in DOMAIN ex.doc : ex.doc[i].some => version_extracted(i)

\* the `not` construct occurs in the schema, outside of pointers
RECURSIVE has_not(_)
has_not(schema) ==
    \/ schema.kind = "not"
    \/ schema.items.some /\ has_not(schema.items.value)
    \/ \E i \in DOMAIN schema.properties : has_not(schema.properties[i][2])
    \/ \E k \in DOMAIN schema.members : has_not(schema.members[k])

\* every `not` node of the schema stands in ty as Any
RECURSIVE not_is_any(_, _)
not_is_any(schema, ty) ==
    CASE schema.kind = "not" -> ty = TypeAny
      [] schema.kind = "object" /\ ty.kind = "Record" ->
            \A i \in DOMAIN schema.properties :
                \A j \in DOMAIN ty.fields :
                    ty.fields[j][1] = schema.properties[i][1]
                        => not_is_any(schema.properties[i][2], ty.fields[j][2].ty)
      [] schema.kind = "array" /\ schema.items.some /\ ty.kind = "Array" ->
            not_is_any(schema.items.value, ty.elem)
      [] OTHER -> TRUE

\* the named schemas that are schemas themselves, not pointers
items_of(doc) == {i \in DOMAIN doc : doc[i].some /\ doc[i].value.kind # "ref"}

\* C20: OpenAPIParser::parse and OpenAPIWalker::extract_types on a document
\* in which some schema uses `not` return Ok; each `not` node has become Any
\* and every named schema of the document is converted and in the result.
C20_NotDegradesToAny ==
    (ex.op \in {"OpenAPIParser::parse", "OpenAPIWalker::extract_types"}
        /\ \E i \in items_of(ex.doc) : has_not(ex.doc[i].value))
        => /\ ex.status = "ok"
           /\ \A i \in items_of(ex.doc) :
                  /\ i \in extracted_units
                  /\ not_is_any(ex.doc[i].value, extracted_type(i))

\* the walker alone does degrade `not` to Any and goes on
OpenAPIWalkerDegradesNot ==
    (ex.op = "OpenAPIWalker::extract_types"
        /\ \E i \in items_of(ex.doc) : has_not(ex.doc[i].value))
        => /\ ex.status = "ok"
           /\ \A i \in items_of(ex.doc) :
                  /\ i \in extracted_units
                  /\ not_is_any(ex.doc[i].value, extracted_type(i))

\* ------------------------------------------------------------------------
\* Further properties of is_compatible (SpecCompat)
\* ------------------------------------------------------------------------
\* C29: is_compatible returns (its recursion ends within the stack) under
\* every content of the side table, a name registered as a Reference to
\* itself or a cycle of registered References included.
C29_IsCompatibleTerminates ==
    compat.called => compat.result \in {"true", "false"}

\* without a Reference registered in the side table the recursion ends
IsCompatibleTerminatesWithoutCycle ==
    (compat.called /\ \A n \in DOMAIN ts_types : ts_types[n].kind # "Reference")
        => compat.result \in {"true", "false"}

\* no Reference occurs in ty
RECURSIVE reference_free(_)
reference_free(ty) ==
    CASE ty.kind = "Reference" -> FALSE
      [] ty.kind \in {"Array", "Optional"} -> reference_free(ty.elem)
      [] ty.kind = "Map" -> reference_free(ty.key) /\ reference_free(ty.value)
      [] ty.kind = "Record" ->
            \A i \in DOMAIN ty.fields : reference_free(ty.fields[i][2].ty)
      [] ty.kind = "Union" -> \A i \in DOMAIN ty.types : reference_free(ty.types[i])
      [] OTHER -> TRUE

\* C30: is_compatible(T, T) is true for every T without a Reference, built
\* from the primitives with Array, Optional, Map, Record and Union.
C30_Reflexive ==
    (compat.called /\ compat.source = compat.target /\ reference_free(compat.source))
        => compat.result = "true"

\* ------------------------------------------------------------------------
\* Properties of TypeRegistry and DependencyGraph (SpecTables)
\* ------------------------------------------------------------------------
\* C27: after any sequence of add_dependency calls, b is in dependencies[a]
\* exactly when a is in dependents[b].
C27_MapsAreInverse ==
    pc = "tables" =>
        /\ \A a \in DOMAIN deps.dependencies :
               \A b \in deps.dependencies[a] : a \in Get(deps.dependents, b, {})
        /\ \A b \in DOMAIN deps.dependents :
               \A a \in deps.dependents[b] : b \in Get(deps.dependencies, a, {})

\* some calls have been made, among them a type depending on itself
C27_Witness ==
    /\ pc = "tables"
    /\ \E a \in DOMAIN deps.dependencies :
           a \in deps.dependencies[a] /\ Cardinality(deps.dependencies[a]) > 1

\* the number of times name is listed in names
listed(names, name) == Cardinality({i \in DOMAIN names : names[i] = name})

\* C28: after any sequence of add_type calls every key "m.n" of types is
\* listed under m in modules, and modules[m] lists each such n exactly
\* once, also when the same fully qualified name was added more than once.
C28_ModulesListEachTypeOnce ==
    pc = "tables" =>
        /\ \A fqn \in DOMAIN registry.types :
               rfind(fqn, ".") # 0 =>
                   listed(Get(registry.modules, extract_module(fqn), <<>>),
                          rsplit_next(fqn, ".")) = 1
        /\ \A module \in DOMAIN registry.modules :
               \A i \in DOMAIN registry.modules[module] :
                   (module \o "." \o registry.modules[module][i]) \in DOMAIN registry.types

\* every key is listed at least once, and nothing is listed without a key
ModulesListEveryType ==
    pc = "tables" =>
        /\ \A fqn \in DOMAIN registry.types :
               rfind(fqn, ".") # 0 =>
                   listed(Get(registry.modules, extract_module(fqn), <<>>),
                          rsplit_next(fqn, ".")) >= 1
        /\ \A module \in DOMAIN registry.modules :
               \A i \in DOMAIN registry.modules[module] :
                   (module \o "." \o registry.modules[module][i]) \in DOMAIN registry.types

\* ------------------------------------------------------------------------
\* Properties of TypeReference::import_path (SpecImportPath)
\* ------------------------------------------------------------------------
\* the package layout below the shared root: the directories that lead from
\* the root to the version directories of a group (package directory, then
\* the group's own sub-directory where the package is named after the
\* organisation only)
GroupDirectories ==
    [group \in IGroups |->
        CASE group = "k8s.io" -> <<"k8s_io">>
          [] group = "apiextensions.crossplane.io" ->
                <<"crossplane", "apiextensions.crossplane.io">>
          [] group = "example.io" -> <<"example_io">>
          [] group = "core" -> <<"core">>
          [] group = "apps.example.com" -> <<"example", "apps.example.com">>
          [] group = "my.group.net" -> <<"my_group_net">>]

\* the leading ".." segments of a path and the segments after them
RECURSIVE leading_ups(_)
leading_ups(segments) ==
    IF Len(segments) > 0 /\ segments[1] = ".." THEN 1 + leading_ups(Tail(segments)) ELSE 0
after_ups(segments) == SubSeq(segments, leading_ups(segments) + 1, Len(segments))

\* C23: the path import_path returns starts with as many `../` as the
\* consumer's file lies below the shared root (package directory, optional
\* group sub-directory, version directory), then names the target's package
\* directory, optional group sub-directory and version, and ends with the
\* lower-cased kind plus `.ncl`.
C23_ImportPathShape ==
    tr.op = "import_path" =>
        /\ leading_ups(split(tr.path, "/"))
               = Len(GroupDirectories[tr.from_group]) + 1
        /\ after_ups(split(tr.path, "/"))
               = GroupDirectories[tr.self.group]
                 \o <<tr.self.version, to_lowercase(tr.self.kind) \o ".ncl">>

\* the first call of test_import_path, with the path the test expects
C23_Witness ==
    /\ tr.op = "import_path"
    /\ tr.self = TypeReferenceNew("k8s.io", "v1", "ObjectMeta")
    /\ tr.from_version = "v1"
    /\ tr.from_group = "apiextensions.crossplane.io"
    /\ tr.path = "../../../k8s_io/v1/objectmeta.ncl"

\* ------------------------------------------------------------------------
\* Properties of the walkers' platform import paths (SpecPlatformImport)
\* ------------------------------------------------------------------------
\* the path descends into the directory of the target's own version and
\* ends with the lower-cased type name plus extension
into_own_version ==
    ends_with(tr.path, "/" \o tr.to_version \o "/"
                       \o to_lowercase(tr.reference.name) \o ".ncl")

\* C24: for a dependency on io.k8s.<...>.<version>.<Type>, the import path
\* a walker computes descends into the directory of <version> and ends with
\* the lower-cased type name plus `.ncl`, for every version string and every
\* version of the consuming module.
C24_PlatformImportIntoOwnVersion ==
    tr.op \in {"PackageWalkerAdapter::calculate_import", "CRDWalker::map_k8s_import_path"}
        => into_own_version

\* the adapter does so for the versions calculate_import lists
CalculateImportListedVersions ==
    (tr.op = "PackageWalkerAdapter::calculate_import"
        /\ tr.to_version \in {"v1", "v1alpha1", "v1beta1", "v2"})
        => into_own_version

\* ------------------------------------------------------------------------
\* Properties of Manifest::generate_all (SpecManifest)
\* ------------------------------------------------------------------------
names_of_pairs(pairs) == [i \in DOMAIN pairs |-> pairs[i][1]]

\* C22: in the report generate_all returns, the name of every package of the
\* manifest is in exactly one of successful, failed and skipped; a package
\* whose generation failed is in failed, and the packages after it were
\* generated all the same; a disabled package was never generated.
C22_EveryPackageReported ==
    (mf.op = "returned" /\ mf.result = "ok") =>
        \A i \in DOMAIN mf.packages :
            /\ listed(mf.report.successful, PackageNames[i])
                   + listed(names_of_pairs(mf.report.failed), PackageNames[i])
                   + listed(mf.report.skipped, PackageNames[i]) = 1
            /\ (mf.packages[i].enabled /\ mf.packages[i].outcome = "err")
                   => listed(names_of_pairs(mf.report.failed), PackageNames[i]) = 1
            /\ (mf.packages[i].enabled /\ mf.packages[i].outcome = "ok")
                   => listed(mf.report.successful, PackageNames[i]) = 1
            /\ mf.packages[i].enabled => listed(mf.generated, PackageNames[i]) = 1
            /\ ~mf.packages[i].enabled
                   => /\ listed(mf.generated, PackageNames[i]) = 0
                      /\ listed(mf.report.skipped, PackageNames[i]) = 1

\* a report on a manifest whose first package failed, followed by an
\* enabled and a disabled one
C22_Witness ==
    /\ mf.op = "returned"
    /\ mf.result = "ok"
    /\ Len(mf.packages) = 3
    /\ mf.packages[1].enabled /\ mf.packages[1].outcome = "err"
    /\ mf.packages[2].enabled /\ mf.packages[2].outcome = "ok"
    /\ ~mf.packages[3].enabled
    /\ mf.generated = <<PackageNames[1], PackageNames[2]>>

\* ------------------------------------------------------------------------
\* Properties of DependencyAnalyzer (SpecAnalyzer)
\* ------------------------------------------------------------------------
\* C26: parse_type_reference yields no TypeReference whose providing
\* package, found through the type registry or through the API-group
\* registry, equals the package set with set_current_package.
C26_NoReferenceIntoCurrentPackage ==
    (da.op = "analyzed" /\ da.result.some)
    => providing_package(da.self, da.result.value) /= da.self.current_package

\* a reference the type-registry arm yields is never one into the current
\* package: the arm compares the registered package with current_package
TypeRegistryArmSkipsCurrentPackage ==
    (/\ da.op = "analyzed"
     /\ da.result.some
     /\ api_group_arm(da.self, da.name, "spec") = None)
    => providing_package(da.self, da.result.value) /= da.self.current_package

TypeRegistryArmWitness ==
    /\ da.op = "analyzed"
    /\ da.result.some
    /\ da.self.current_package = Some("crossplane")
    /\ da.name = "ObjectMeta"

\* ------------------------------------------------------------------------
\* Properties of extract_core_types and handle_k8s_core_import (SpecFetcher)
\* ------------------------------------------------------------------------
\* the definitions reachable from the seeds through #/definitions/
\* references to definitions the map holds
RECURSIVE reachable_from(_, _)
reachable_from(names, definitions) ==
    LET next == names \cup UNION {collect_schema_references(definitions[n])
                                     \cap DOMAIN definitions : n \in names}
    IN  IF next = names THEN names ELSE reachable_from(next, definitions)

reachable_definitions(definitions) ==
    reachable_from(Range(seed_types) \cap DOMAIN definitions, definitions)

\* C25: extract_core_types terminates on every definitions map, cycles of
\* $ref included; each definition name is converted at most once; and
\* when it returns, every definition of the map that is reachable from a
\* seed through #/definitions/ references has been processed.
C25_ReachableDefinitionsProcessed ==
    (kf.op = "returned" /\ kf.document.some)
    => /\ \A i, j \in 1..Len(kf.converted) : kf.converted[i] = kf.converted[j] => i = j
       /\ reachable_definitions(kf.document.value) \subseteq kf.processed

\* no name is converted twice, at any point of the loop
ConvertedAtMostOnce ==
    \A i, j \in 1..Len(kf.converted) : kf.converted[i] = kf.converted[j] => i = j

\* the loop terminates, whatever the map: every iteration either adds a
\* name to processed, and only seeds and definition names get there, or
\* leaves processed alone and shortens the queue
unprocessed(fetcher) ==
    Cardinality((Range(seed_types) \cup DOMAIN fetcher.document.value) \ fetcher.processed)

ExtractCoreTypesTerminates ==
    [][(kf.op = "extracting" /\ kf'.op = "extracting")
       => \/ unprocessed(kf') < unprocessed(kf)
          \/ /\ unprocessed(kf') = unprocessed(kf)
             /\ Len(kf'.to_process) < Len(kf.to_process)]_vars

\* where every definition name of the map parses, every reachable
\* definition is processed
all_names_parse(definitions) ==
    \A n \in DOMAIN definitions : k8s_parse_type_reference(n).ok

ReachableProcessedWhenNamesParse ==
    (kf.op = "returned" /\ kf.document.some /\ all_names_parse(kf.document.value))
    => reachable_definitions(kf.document.value) \subseteq kf.processed

ReachableProcessedWitness ==
    /\ kf.op = "returned"
    /\ kf.document.some
    /\ all_names_parse(kf.document.value)
    /\ "io.k8s.api.core.v1.PodSpec" \in kf.processed
    /\ "io.k8s.api.core.v1.Status" \in kf.processed

\* the definitions extract_core_types converted
converted_names ==
    IF kf.document.some
    THEN {n \in kf.processed \cap DOMAIN kf.document.value : k8s_parse_type_reference(n).ok}
    ELSE {}

\* the file that holds the definition n as extract_core_types converts it
written_module(n) ==
    file_module(k8s_parse_type_reference(n).value,
                schema_to_type_definition(rsplit_next(n, "."), kf.document.value[n]))

appears_in_package(n) == \E path \in DOMAIN kf.files : kf.files[path] = written_module(n)

\* C21: every definition extract_core_types converted is in the generated
\* package under its name: two distinct definitions never share a
\* (group, version, kind) key nor a file <version>/<kind>.ncl.
C21_NoTypeOverwritesAnother ==
    kf.op = "written"
    => /\ \A n \in converted_names : appears_in_package(n)
       /\ \A n1, n2 \in converted_names :
              n1 /= n2 => /\ k8s_parse_type_reference(n1).value
                               /= k8s_parse_type_reference(n2).value
                          /\ file_path(k8s_parse_type_reference(n1).value)
                               /= file_path(k8s_parse_type_reference(n2).value)

\* where the converted definitions go to files of their own, each of them
\* is in the package
files_of_their_own ==
    \A n1, n2 \in converted_names :
        n1 /= n2 => file_path(k8s_parse_type_reference(n1).value)
                      /= file_path(k8s_parse_type_reference(n2).value)

OwnFilesKeepEveryType ==
    (kf.op = "written" /\ files_of_their_own)
    => \A n \in converted_names : appears_in_package(n)

OwnFilesWitness ==
    /\ kf.op = "written"
    /\ files_of_their_own
    /\ Cardinality(converted_names) >= 3

====
